---- MODULE Spec2Model ----
(***************************************************************************)
(* Model of the message-persistence plugin src/plugins/sql/sql_plugin.c:   *)
(* the ULID generator, the topic matcher, the write queue, the batch       *)
(* writer thread, the message callback and the plugin lifecycle.           *)
(*                                                                         *)
(* C strings are sequences: a ULID string is a sequence of 26 character    *)
(* codes, a topic or a pattern is a sequence of one-character strings, a   *)
(* payload is a sequence of byte values.  C arrays are 0-based, sequences  *)
(* 1-based: byte k of a buffer u is u[k + 1].                              *)
(***************************************************************************)
EXTENDS Integers, Sequences, FiniteSets, TLC

(***************************************************************************)
(* Bounds of the model.                                                    *)
(***************************************************************************)
\* ulid_generate calls explored by the generator specification SpecGen
MaxGenCalls == 4
\* message callbacks explored by the plugin specification Spec
MaxCalls == 3
\* the hard maximum of the queue, 15,000 in the documentation, scaled to the
\* number of callbacks explored
QueueHardMax == 2
\* length of the short texts of option batch_size explored by SpecOpt
MaxOptLen == 3
\* length of the patterns and topics explored by SpecMatch
MaxTopicLen == 3

(***************************************************************************)
(* Program constants.                                                      *)
(***************************************************************************)
ULID_RELAXED == 1
ULID_PARANOID == 2
ULID_SECURE == 4
DEFAULT_BATCH_SIZE == 100
MAX_QUEUE_SIZE == 10000

(***************************************************************************)
(* Bit operations of C on non-negative ints.                               *)
(***************************************************************************)
RECURSIVE Pow2(_)
Pow2(n) == IF n = 0 THEN 1 ELSE 2 * Pow2(n - 1)

\* x >> n, by halving so that a wide shift of a small value stays in range
RECURSIVE Shr(_, _)
Shr(x, n) == IF n = 0 \/ x = 0 THEN x ELSE Shr(x \div 2, n - 1)

Shl(x, n) == x * Pow2(n)

RECURSIVE BitAnd(_, _)
BitAnd(a, b) ==
    IF a = 0 \/ b = 0 THEN 0
    ELSE (a % 2) * (b % 2) + 2 * BitAnd(a \div 2, b \div 2)

RECURSIVE BitOr(_, _)
BitOr(a, b) ==
    IF a = 0 THEN b
    ELSE IF b = 0 THEN a
    ELSE (IF a % 2 = 1 \/ b % 2 = 1 THEN 1 ELSE 0) + 2 * BitOr(a \div 2, b \div 2)

\* conversion of an int to unsigned char
U8(x) == x % 256

(***************************************************************************)
(* ulid_encode: 16 bytes -> 26 characters (codes of the Crockford set).    *)
(***************************************************************************)
\* the 32 characters 0-9 A-H J K M N P-T V-Z; the table of the source
\* repeats them eight times so that any byte value indexes it
\* a plausible slip: the alphabet 0-9 A-V, with no letter left out
Crockford_Base32Hex ==
    << 48, 49, 50, 51, 52, 53, 54, 55, 56, 57, 65, 66, 67, 68, 69, 70,
       71, 72, 73, 74, 75, 76, 77, 78, 79, 80, 81, 82, 83, 84, 85, 86 >>

\* a plausible slip: the alphabet A-Z 2-7, letters before digits
Crockford_Rfc4648 ==
    << 65, 66, 67, 68, 69, 70, 71, 72, 73, 74, 75, 76, 77, 78, 79, 80,
       81, 82, 83, 84, 85, 86, 87, 88, 89, 90, 50, 51, 52, 53, 54, 55 >>

Crockford ==
    << 48, 49, 50, 51, 52, 53, 54, 55, 56, 57, 65, 66, 67, 68, 69, 70,
       71, 72, 74, 75, 77, 78, 80, 81, 82, 83, 84, 86, 87, 88, 89, 90 >>

set(x) == Crockford[(x % 32) + 1]

ulid_encode(u) ==
    LET b(k) == u[k + 1] IN
    << set(Shr(b(0), 5)),
       set(Shr(b(0), 0)),
       set(Shr(b(1), 3)),
       set(BitAnd(BitOr(Shl(b(1), 2), Shr(b(2), 6)), 31)),
       set(Shr(b(2), 1)),
       set(BitAnd(BitOr(Shl(b(2), 4), Shr(b(3), 4)), 31)),
       set(BitAnd(BitOr(Shl(b(3), 1), Shr(b(4), 7)), 31)),
       set(Shr(b(4), 2)),
       set(BitAnd(BitOr(Shl(b(4), 3), Shr(b(5), 5)), 31)),
       set(Shr(b(5), 0)),
       set(Shr(b(6), 3)),
       set(BitAnd(BitOr(Shl(b(6), 2), Shr(b(7), 6)), 31)),
       set(Shr(b(7), 1)),
       set(BitAnd(BitOr(Shl(b(7), 4), Shr(b(8), 4)), 31)),
       set(BitAnd(BitOr(Shl(b(8), 1), Shr(b(9), 7)), 31)),
       set(Shr(b(9), 2)),
       set(BitAnd(BitOr(Shl(b(9), 3), Shr(b(10), 5)), 31)),
       set(Shr(b(10), 0)),
       set(Shr(b(11), 3)),
       set(BitAnd(BitOr(Shl(b(11), 2), Shr(b(12), 6)), 31)),
       set(Shr(b(12), 1)),
       set(BitAnd(BitOr(Shl(b(12), 4), Shr(b(13), 4)), 31)),
       set(BitAnd(BitOr(Shl(b(13), 1), Shr(b(14), 7)), 31)),
       set(Shr(b(14), 2)),
       set(BitAnd(BitOr(Shl(b(14), 3), Shr(b(15), 5)), 31)),
       set(Shr(b(15), 0)) >>

(***************************************************************************)
(* Orders on buffers and strings.                                          *)
(***************************************************************************)
\* a < b for two sequences of the same length, compared element by element
\* from the first (unsigned big-endian order of buffers, strcmp order of
\* strings of equal length)
LexLess(a, b) ==
    \E i \in 1..Len(a) :
        /\ a[i] < b[i]
        /\ \A j \in 1..(i - 1) : a[j] = b[j]

(***************************************************************************)
(* ulid_generate.                                                          *)
(***************************************************************************)
ZeroId == [k \in 1..16 |-> 0]

\* for (i = 15; i > 5; i--) if (++g->last[i]) break;
\* the unsigned char wraps to 0 and the carry moves on to byte i - 1; the
\* carry out of byte 6 is dropped
RECURSIVE IncrementFrom(_, _)
IncrementFrom(last, i) ==
    IF i <= 5 THEN last
    ELSE LET v == U8(last[i + 1] + 1)
             l2 == [last EXCEPT ![i + 1] = v]
         IN IF v # 0 THEN l2 ELSE IncrementFrom(l2, i - 1)

\* a plausible slip: only byte 15 is incremented, the carry is lost
IncrementTail_NoCarry(last) == [last EXCEPT ![16] = U8(last[16] + 1)]

IncrementTail(last) == IncrementFrom(last, 15)

\* a plausible slip: the timestamp bytes are written low byte first
FillTimestamp_LittleEndian(last, ts) ==
    [k \in 1..16 |-> IF k <= 6 THEN U8(Shr(ts, 8 * (k - 1))) ELSE last[k]]

\* g->last[0..5] = ts >> 40, ts >> 32, ..., ts >> 0 (each cut to a byte)
FillTimestamp(last, ts) ==
    [k \in 1..16 |-> IF k <= 6 THEN U8(Shr(ts, 8 * (6 - k))) ELSE last[k]]

\* g->last[6 + k] = next byte of the RC4 stream, k = 0..9; the stream is
\* seeded from OS entropy, so the ten bytes are an input (draw)
FillRandom(last, draw) ==
    [k \in 1..16 |-> IF k <= 6 THEN last[k] ELSE draw[k - 6]]

\* if (g->flags & ULID_PARANOID) g->last[6] &= 0x7f;
ParanoidMask(last, flags) ==
    IF BitAnd(flags, ULID_PARANOID) # 0
    THEN [last EXCEPT ![7] = BitAnd(last[7], 127)]
    ELSE last

\* the generator after ulid_generate read the millisecond clock value ts;
\* the string written to str is ulid_encode of its field last
ulid_generate(g, ts, draw) ==
    IF BitAnd(g.flags, ULID_RELAXED) = 0 /\ g.last_ts = ts
    THEN [g EXCEPT !.last = IncrementTail(g.last)]
    ELSE [g EXCEPT !.last_ts = ts,
                   !.last = ParanoidMask(FillRandom(FillTimestamp(g.last, ts), draw),
                                         g.flags)]

(***************************************************************************)
(* Topic matcher.                                                          *)
(***************************************************************************)
NUL == "NUL"

\* *p for a pointer p into the C string s: the character at position p, or
\* the terminator
At(s, p) == IF p <= Len(s) THEN s[p] ELSE NUL

\* while (*t && *t != '/') t++;
RECURSIVE SkipLevel(_, _)
SkipLevel(topic, t) ==
    IF At(topic, t) # NUL /\ At(topic, t) # "/" THEN SkipLevel(topic, t + 1) ELSE t

RECURSIVE MatchFrom(_, _, _, _)
MatchFrom(pattern, topic, p, t) ==
    IF At(pattern, p) # NUL /\ At(topic, t) # NUL
    THEN IF At(pattern, p) = "#" THEN 1
         ELSE IF At(pattern, p) = "+"
              THEN IF At(pattern, p + 1) # NUL /\ At(pattern, p + 1) # "/"
                   THEN 0
                   ELSE MatchFrom(pattern, topic, p + 1, SkipLevel(topic, t))
              ELSE IF At(pattern, p) = At(topic, t)
                   THEN MatchFrom(pattern, topic, p + 1, t + 1)
                   ELSE 0
    ELSE IF At(pattern, p) = "#" THEN 1
         ELSE IF At(pattern, p) = NUL /\ At(topic, t) = NUL THEN 1
         ELSE 0

topic_matches_pattern(pattern, topic) == MatchFrom(pattern, topic, 1, 1)

\* a plausible slip: the loop stops one pattern short
is_topic_excluded_SkipsLast(patterns, topic) ==
    IF \E i \in 1..(Len(patterns) - 1) : topic_matches_pattern(patterns[i], topic) = 1
    THEN 1 ELSE 0

is_topic_excluded(patterns, topic) ==
    IF \E i \in 1..Len(patterns) : topic_matches_pattern(patterns[i], topic) = 1
    THEN 1 ELSE 0

(***************************************************************************)
(* State.                                                                  *)
(***************************************************************************)
VARIABLES
    ulid_gen,               \* struct ulid_generator: last, last_ts, flags
    msg_db,                 \* "NULL", "open" or "closed"
    insert_stmt,            \* "NULL", "prepared" or "finalized"
    delete_stmt,            \* "NULL", "prepared" or "finalized"
    exclude_patterns,       \* exclude_patterns[0 .. exclude_pattern_count - 1]
    batch_size,
    msg_queue,              \* the entries linked by next, first to last
    msg_queue_size,
    batch_thread_running,   \* 0 or 1
    registered,             \* the callback is registered with the broker
    init_rc,                \* what mosquitto_plugin_init returned, "none" before
    init_outcome,           \* history: which steps of the init succeeded (all,
                            \* as long as init_rc is "none")
    opt_batch_size,         \* history: the text of option batch_size
    store,                  \* the rows of table msg
    ppc,                    \* broker thread: "unloaded", "loaded", "joining",
                            \* "finalizing", "cleaned"
    wpc,                    \* writer thread: position in batch_worker
    wfinal,                 \* writer is in the final flush_batch after its loop
    woken,                  \* a signal on queue_cond reached the waiting writer
    batch,                  \* flush_batch: the list batch_head
    bidx,                   \* flush_batch: position of entry in batch
    in_txn,                 \* BEGIN TRANSACTION was executed, COMMIT not yet
    calls,                  \* number of callbacks so far
    msg_queue_head,         \* the entry msg_queue_head points to, by its number
    msg_queue_tail,         \* the entry msg_queue_tail points to, by its number
    evt,                    \* the event of the last callback as the broker gave it
    out_props,              \* ed->properties when the last callback returned
    cb_rc,                  \* what the last callback returned
    hist,                   \* history: id minted, topic, retain flag, qos,
                            \* payload, properties, path and attached ids of
                            \* each callback
    enq_log,                \* history: call numbers whose entry was pushed
    step_log,               \* history: call numbers whose entry was stepped
    ins_log,                \* history: call numbers whose insert returned DONE
    del_log,                \* history: call numbers of the pushed entries that a
                            \* later delete request on their topic named by id
    cleanup_queue,          \* history: call numbers queued when cleanup began
    free_log,               \* history: call numbers of the entries flush_batch
                            \* has freed
    gen_calls,              \* history: number of ulid_generate calls
    prev_last,              \* history: last[] before the latest ulid_generate
    prev_ts,                \* history: last_ts before the latest ulid_generate
    read_ts,                \* history: clock value the latest ulid_generate read
    m_pattern,              \* topic_matches_pattern alone: argument pattern
    m_topic,                \* topic_matches_pattern alone: argument topic
    m_result,               \* topic_matches_pattern alone: what it returned, -1
                            \* before the call
    codec,                  \* ulid_encode and ulid_decode alone: arguments,
                            \* results and the position in the sequence of calls
    wall_hours,             \* whole hours of wall-clock time since the broker
                            \* started
    wait                    \* the deadline of the writer's timed wait alone: the
                            \* option text, flush_interval_ms, the clock reading
                            \* and the timespec computed from them

gen_vars == << ulid_gen, gen_calls, prev_last, prev_ts, read_ts >>

cfg_vars == << msg_db, insert_stmt, delete_stmt, exclude_patterns, batch_size,
               registered, init_rc, init_outcome, opt_batch_size >>

queue_vars == << msg_queue, msg_queue_size, msg_queue_head, msg_queue_tail >>

writer_vars == << wpc, wfinal, batch, bidx, in_txn >>

evt_vars == << calls, evt, out_props, cb_rc, hist >>

log_vars == << enq_log, step_log, ins_log, del_log, cleanup_queue, free_log >>

match_vars == << m_pattern, m_topic, m_result >>

time_vars == << wall_hours, wait >>

vars == << gen_vars, cfg_vars, match_vars, codec, time_vars, queue_vars, writer_vars, evt_vars, log_vars,
           batch_thread_running, store, ppc, woken >>

\* what can fail in mosquitto_plugin_init: sqlite3_open, the create table
\* statement, sqlite3_prepare_v2 of each statement (the handle is then NULL),
\* pthread_create
AllOk == [open |-> TRUE, table |-> TRUE, insert |-> TRUE, delete |-> TRUE,
          thread |-> TRUE]

NoEvent == [topic |-> << >>, retain |-> FALSE, payload |-> << >>, qos |-> 0,
            props |-> << >>]

\* the static struct ulid_generator, zero-initialised
StaticGenerator == [last |-> ZeroId, last_ts |-> 0, flags |-> 0]

\* a null pointer to an entry (entries are numbered from 1)
NullEntry == 0

\* the other statics of the library when it is loaded
StaticOther ==
    /\ msg_db = "NULL"
    /\ insert_stmt = "NULL"
    /\ delete_stmt = "NULL"
    /\ exclude_patterns = << >>
    /\ batch_size = DEFAULT_BATCH_SIZE
    /\ msg_queue = << >>
    /\ msg_queue_size = 0
    /\ msg_queue_head = NullEntry
    /\ msg_queue_tail = NullEntry
    /\ batch_thread_running = 0
    /\ registered = FALSE
    /\ init_rc = "none"
    /\ init_outcome = AllOk
    /\ opt_batch_size = << >>
    /\ cb_rc = "none"
    /\ store = {}
    /\ ppc = "unloaded"
    /\ wpc = "none"
    /\ wfinal = FALSE
    /\ woken = FALSE
    /\ batch = << >>
    /\ bidx = 1
    /\ in_txn = FALSE
    /\ calls = 0
    /\ evt = NoEvent
    /\ out_props = << >>
    /\ hist = << >>
    /\ enq_log = << >>
    /\ step_log = << >>
    /\ ins_log = << >>
    /\ del_log = {}
    /\ cleanup_queue = << >>
    /\ free_log = {}
    /\ gen_calls = 0
    /\ prev_last = ZeroId
    /\ prev_ts = 0
    /\ read_ts = 0
    /\ wall_hours = 0

\* topic_matches_pattern has not been called on its own
NoMatchCall ==
    /\ m_pattern = << >>
    /\ m_topic = << >>
    /\ m_result = -1

\* ulid_encode and ulid_decode have not been called on their own
NoCodecCall ==
    codec = [pc |-> "none", a |-> ZeroId, b |-> ZeroId, s |-> << >>, oob |-> -1,
             enc_a |-> << >>, enc_b |-> << >>, rc |-> -1, dec |-> ZeroId,
             reenc |-> << >>]

\* the deadline of the timed wait has not been computed on its own
NoWaitCall ==
    wait = [pc |-> "none", opt |-> << >>, flush_interval_ms |-> 0,
            now |-> [tv_sec |-> 0, ms |-> 0, ns |-> 0],
            timeout |-> [tv_sec |-> 0, ms |-> 0, ns |-> 0]]

\* g->last_ts = 0; g->flags = flags; (last[] is not touched)
ulid_generator_init(g, flags) == [g EXCEPT !.last_ts = 0, !.flags = flags]

(***************************************************************************)
(* The generator alone: any clock readings, any random bytes.              *)
(***************************************************************************)
\* a clock value with bits in bytes 2 to 5 of the id: 0x40010005
LateClock == 1073807365

\* millisecond clock values read; 255 -> 256 carries into the next byte
GenClock == {1, 255, 256, LateClock}

\* ten bytes drawn from the random stream
RandomDraws ==
    { [k \in 1..10 |-> 0],
      [k \in 1..10 |-> 255],
      [k \in 1..10 |-> IF k >= 9 THEN 255 ELSE 0] }

\* the generator as mosquitto_plugin_init leaves it
InitGen ==
    /\ ulid_gen = ulid_generator_init(StaticGenerator, ULID_PARANOID)
    /\ StaticOther
    /\ NoMatchCall
    /\ NoCodecCall
    /\ NoWaitCall

\* one call of ulid_generate, with what it read from the clock and the stream
GenStep(ts, draw) ==
    /\ ulid_gen' = ulid_generate(ulid_gen, ts, draw)
    /\ gen_calls' = gen_calls + 1
    /\ prev_last' = ulid_gen.last
    /\ prev_ts' = ulid_gen.last_ts
    /\ read_ts' = ts

GenCall ==
    /\ gen_calls < MaxGenCalls
    /\ \E ts \in GenClock, draw \in RandomDraws : GenStep(ts, draw)
    /\ UNCHANGED << cfg_vars, match_vars, codec, time_vars, queue_vars, writer_vars, evt_vars, log_vars,
                    batch_thread_running, store, ppc, woken >>

NextGen == GenCall

SpecGen == InitGen /\ [][NextGen]_vars

(***************************************************************************)
(* C1, C2: order of successive ids.                                        *)
(***************************************************************************)
\* the id the latest ulid_generate returned, and the one before it
CurId == ulid_gen.last

PrevId == prev_last

\* C1: whenever ulid_generate reads a clock value that is not below the one
\* read by the call before it (the same millisecond included), the id it
\* returns is strictly greater than the id returned before, as 16 bytes
\* compared big-endian and as the 26-character string.
C1_Monotonic ==
    (gen_calls >= 2 /\ read_ts >= prev_ts)
        => /\ LexLess(PrevId, CurId)
           /\ LexLess(ulid_encode(PrevId), ulid_encode(CurId))

\* a call in the same millisecond as the call before it whose increment
\* carried out of byte 15 into the bytes above it
C1_Witness ==
    /\ gen_calls >= 2
    /\ read_ts = prev_ts
    /\ PrevId[16] = 255
    /\ CurId[16] = 0
    /\ LexLess(PrevId, CurId)

\* C2: a call that reads a clock value below the last-seen one keeps the
\* last-seen timestamp and returns an id strictly greater than the one
\* before.
C2_ClockRetreat ==
    (gen_calls >= 2 /\ read_ts < prev_ts)
        => /\ ulid_gen.last_ts = prev_ts
           /\ LexLess(PrevId, CurId)
           /\ LexLess(ulid_encode(PrevId), ulid_encode(CurId))

(***************************************************************************)
(* Helpers of the message callback.                                        *)
(***************************************************************************)
\* mosquitto_property_add_string_pair(&ed->properties, MQTT_PROP_USER_PROPERTY,
\* name, value): the broker library appends the pair to the end of the list
AddStringPair(props, name, value) == Append(props, [name |-> name, value |-> value])

\* a plausible slip: the list is overwritten with the new pair
AttachUlid_Overwrites(props, ulid) == << [name |-> "ulid", value |-> ulid] >>

\* the property attached before every return of the callback
AttachUlid(props, ulid) == AddStringPair(props, "ulid", ulid)

NoTarget == [found |-> FALSE, value |-> << >>]

\* the loop over mosquitto_property_read_string_pair: the value of the first
\* user property named "ulid", or NULL
RECURSIVE FindUlidFrom(_, _)
FindUlidFrom(props, i) ==
    IF i > Len(props) THEN NoTarget
    ELSE IF props[i].name = "ulid" THEN [found |-> TRUE, value |-> props[i].value]
    ELSE FindUlidFrom(props, i + 1)

FindUlidProperty(props) == FindUlidFrom(props, 1)

\* a plausible slip: the query orders the ids ascending
LatestUlid_Oldest(rows, topic) ==
    LET ids == {r.ulid : r \in {x \in rows : x.topic = topic}} IN
    IF ids = {} THEN NoTarget
    ELSE [found |-> TRUE,
          value |-> CHOOSE m \in ids : \A o \in ids : o = m \/ LexLess(m, o)]

\* SELECT ulid FROM msg WHERE topic = ?1 ORDER BY ulid DESC LIMIT 1
LatestUlid(rows, topic) ==
    LET ids == {r.ulid : r \in {x \in rows : x.topic = topic}} IN
    IF ids = {} THEN NoTarget
    ELSE [found |-> TRUE,
          value |-> CHOOSE m \in ids : \A o \in ids : o = m \/ LexLess(o, m)]

\* a plausible slip: the statement selects by id alone
DeleteRow_ByUlidOnly(rows, topic, ulid) == {r \in rows : r.ulid # ulid}

\* DELETE FROM msg WHERE topic = ?1 AND ulid = ?2
DeleteRow(rows, topic, ulid) == {r \in rows : ~(r.topic = topic /\ r.ulid = ulid)}

\* a plausible slip: the retain flag is not tested
IsDeleteIntent_PayloadOnly(e) == Len(e.payload) = 0

\* a plausible slip: the test of the retain flag is inverted
IsDeleteIntent_RetainInverted(e) == ~e.retain /\ Len(e.payload) = 0

\* if (ed->retain && ed->payloadlen == 0)
IsDeleteIntent(e) == e.retain /\ Len(e.payload) = 0

\* strndup(s, n): the bytes of s before its first zero byte, at most n
RECURSIVE strndup(_, _)
strndup(s, n) ==
    IF n = 0 \/ s = << >> \/ Head(s) = 0 THEN << >>
    ELSE << Head(s) >> \o strndup(Tail(s), n - 1)

\* the struct msg_entry that enqueue_message fills; seq is history: the
\* number of the callback that made it
NewEntry(ulid, topic, payload, payloadlen, timestamp, retain, qos, seq) ==
    [ulid |-> ulid, topic |-> topic, payload |-> strndup(payload, payloadlen),
     timestamp |-> timestamp, retain |-> retain, qos |-> qos, seq |-> seq]

\* a plausible slip: the new entry is linked in front of the list
QueuePush_AtHead(queue, entry) == << entry >> \o queue

\* msg_queue_tail->next = entry; msg_queue_tail = entry;
QueuePush(queue, entry) == Append(queue, entry)

\* pthread_cond_signal(&queue_cond): wakes the writer if it is waiting
Signalled == wpc = "waiting"

(***************************************************************************)
(* The message callback, on the broker's thread.                           *)
(***************************************************************************)
\* return right after the exclusion check
CbExcluded ==
    UNCHANGED << queue_vars, store, woken, enq_log, del_log >>

\* the target id of an empty retained publish: the ulid property, else the
\* latest row of the topic
DeleteTarget(e) ==
    LET fromProp == FindUlidProperty(e.props) IN
    IF fromProp.found THEN fromProp
    ELSE IF msg_db = "open" THEN LatestUlid(store, e.topic)
    ELSE NoTarget

\* a plausible slip: the signal is sent only above the threshold
enqueue_message_SignalsAbove(ulid, topic, payload, payloadlen, timestamp, retain, qos) ==
    /\ wpc # "locked"
    /\ msg_queue' = QueuePush(msg_queue,
                        NewEntry(ulid, topic, payload, payloadlen, timestamp,
                                 retain, qos, calls + 1))
    /\ msg_queue_head' = IF msg_queue_tail = NullEntry THEN calls + 1
                         ELSE msg_queue_head
    /\ msg_queue_tail' = calls + 1
    /\ msg_queue_size' = msg_queue_size + 1
    /\ woken' = IF msg_queue_size + 1 > batch_size THEN (woken \/ Signalled)
                ELSE woken

\* enqueue_message, under queue_mutex
enqueue_message(ulid, topic, payload, payloadlen, timestamp, retain, qos) ==
    /\ wpc # "locked"
    /\ msg_queue' = QueuePush(msg_queue,
                        NewEntry(ulid, topic, payload, payloadlen, timestamp,
                                 retain, qos, calls + 1))
    /\ msg_queue_head' = IF msg_queue_tail = NullEntry THEN calls + 1
                         ELSE msg_queue_head
    /\ msg_queue_tail' = calls + 1
    /\ msg_queue_size' = msg_queue_size + 1
    /\ woken' = IF msg_queue_size + 1 >= batch_size THEN (woken \/ Signalled)
                ELSE woken

\* a plausible slip: retain and qos are bound to each other's parameter
RowOf_SwapsRetainQos(entry) ==
    [ulid |-> entry.ulid, topic |-> entry.topic, payload |-> entry.payload,
     timestamp |-> entry.timestamp, retain |-> entry.qos, qos |-> entry.retain]

\* the row that binding an entry to the insert statement makes
RowOf(entry) ==
    [ulid |-> entry.ulid, topic |-> entry.topic, payload |-> entry.payload,
     timestamp |-> entry.timestamp, retain |-> entry.retain, qos |-> entry.qos]

\* a plausible slip: the row is inserted at once, on the broker's thread
CbInsert_Direct(e, ulid, msEpoch) ==
    /\ store' = store \cup
                    {RowOf(NewEntry(ulid, e.topic, e.payload, Len(e.payload), msEpoch,
                                    IF e.retain THEN 1 ELSE 0, e.qos, calls + 1))}
    /\ UNCHANGED << queue_vars, woken, enq_log, del_log >>

\* the last branch: the message is queued for the writer
CbInsert(e, ulid, msEpoch) ==
    /\ IF batch_thread_running # 0
       THEN /\ enqueue_message(ulid, e.topic, e.payload, Len(e.payload), msEpoch,
                               IF e.retain THEN 1 ELSE 0, e.qos)
            /\ enq_log' = Append(enq_log, calls + 1)
       ELSE UNCHANGED << queue_vars, woken, enq_log >>
    /\ UNCHANGED << store, del_log >>

\* a plausible slip: without a target the branch does not return and the
\* publish goes on to the enqueue
CbDelete_FallsThrough(e) ==
    LET fromProp == FindUlidProperty(e.props)
        target == DeleteTarget(e)
    IN IF ~target.found
       THEN CbInsert(e, ulid_encode(ulid_gen'.last), ulid_gen'.last_ts \div 1000)
       ELSE /\ store' = IF delete_stmt # "NULL"
                        THEN DeleteRow(store, e.topic, target.value)
                        ELSE store
            /\ del_log' = IF fromProp.found
                          THEN del_log \cup
                               {enq_log[k] : k \in {j \in 1..Len(enq_log) :
                                    /\ hist[enq_log[j]].ulid = fromProp.value
                                    /\ hist[enq_log[j]].topic = e.topic}}
                          ELSE del_log
            /\ UNCHANGED << queue_vars, woken, enq_log >>

\* the branch of an empty retained publish: the delete statement is bound
\* and stepped here, on the broker's thread
CbDelete(e) ==
    LET fromProp == FindUlidProperty(e.props)
        target == DeleteTarget(e)
    IN /\ store' = IF target.found /\ delete_stmt # "NULL"
                   THEN DeleteRow(store, e.topic, target.value)
                   ELSE store
       /\ del_log' = IF fromProp.found
                     THEN del_log \cup
                          {enq_log[k] : k \in {j \in 1..Len(enq_log) :
                               /\ hist[enq_log[j]].ulid = fromProp.value
                               /\ hist[enq_log[j]].topic = e.topic}}
                     ELSE del_log
       /\ UNCHANGED << queue_vars, woken, enq_log >>

\* which return of the callback an event takes
PathOf(e) ==
    IF is_topic_excluded(exclude_patterns, e.topic) = 1 THEN "excluded"
    ELSE IF IsDeleteIntent(e)
         THEN (IF ~DeleteTarget(e).found THEN "delete_notarget"
               ELSE IF delete_stmt = "NULL" THEN "delete_nostmt"
               ELSE "delete")
         ELSE (IF batch_thread_running # 0 THEN "insert" ELSE "insert_off")

\* what mosquitto_property_add_string_pair can return here: success, or
\* MOSQ_ERR_NOMEM when an allocation fails (the list is then left as it was)
AttachOk == {"MOSQ_ERR_SUCCESS"}

AttachAny == {"MOSQ_ERR_SUCCESS", "MOSQ_ERR_NOMEM"}

\* on_message_callback for the event e, when ulid_generate reads ts from the
\* clock and draw from the random stream, and the attach returns add_rc;
\* every return statement returns the result of the attach
on_message_callback(e, ts, draw, add_rc) ==
    LET ulid == ulid_encode(ulid_generate(ulid_gen, ts, draw).last)
        usEpoch == ts
        msEpoch == usEpoch \div 1000
    IN /\ GenStep(ts, draw)
       /\ IF is_topic_excluded(exclude_patterns, e.topic) = 1 THEN CbExcluded
          ELSE IF IsDeleteIntent(e) THEN CbDelete(e)
          ELSE CbInsert(e, ulid, msEpoch)
       /\ out_props' = IF add_rc = "MOSQ_ERR_SUCCESS" THEN AttachUlid(e.props, ulid)
                       ELSE e.props
       /\ cb_rc' = add_rc
       /\ calls' = calls + 1
       /\ evt' = e
       /\ hist' = Append(hist, [ulid |-> ulid, topic |-> e.topic, path |-> PathOf(e),
                                 retain |-> e.retain, payloadlen |-> Len(e.payload),
                                 payload |-> e.payload, qos |-> e.qos,
                                 props |-> e.props,
                                 attached |-> IF add_rc = "MOSQ_ERR_SUCCESS"
                                              THEN << ulid >> ELSE << >>])

(***************************************************************************)
(* The writer thread: batch_worker and flush_batch.                        *)
(***************************************************************************)
SeqsOf(entries) == [i \in 1..Len(entries) |-> entries[i].seq]

\* sqlite3_step(insert_stmt) returns SQLITE_DONE unless the primary key exists
StepDone(rows, entry) == \A r \in rows : r.ulid # entry.ulid

\* where flush_batch returns to
FlushReturn == IF wfinal THEN "done" ELSE "loop"

\* a plausible slip: batch_head is taken from the tail pointer
TakeBatch_FromTail(queue) == << queue[Len(queue)] >>

\* batch_head = msg_queue_head: the whole list
TakeBatch(queue) == queue

\* while (batch_thread_running): enter the loop, or leave it for the final flush
W_Loop ==
    /\ wpc = "loop"
    /\ IF batch_thread_running # 0
       THEN wpc' = "locked" /\ wfinal' = wfinal
       ELSE wpc' = "take" /\ wfinal' = TRUE
    /\ UNCHANGED << gen_vars, cfg_vars, match_vars, codec, time_vars, queue_vars, batch, bidx, in_txn, evt_vars,
                    log_vars, batch_thread_running, store, ppc, woken >>

\* queue_mutex held: while (msg_queue_size < batch_size && batch_thread_running)
W_WaitTest ==
    /\ wpc = "locked"
    /\ IF msg_queue_size < batch_size /\ batch_thread_running # 0
       THEN wpc' = "waiting" /\ woken' = FALSE
       ELSE wpc' = "check" /\ woken' = woken
    /\ UNCHANGED << gen_vars, cfg_vars, match_vars, codec, time_vars, queue_vars, wfinal, batch, bidx, in_txn,
                    evt_vars, log_vars, batch_thread_running, store, ppc >>

\* pthread_cond_timedwait returns 0 after a signal: the loop tests again
W_Wake ==
    /\ wpc = "waiting"
    /\ woken
    /\ wpc' = "locked"
    /\ woken' = FALSE
    /\ UNCHANGED << gen_vars, cfg_vars, match_vars, codec, time_vars, queue_vars, wfinal, batch, bidx, in_txn,
                    evt_vars, log_vars, batch_thread_running, store, ppc >>

\* a plausible slip: pthread_cond_wait, which returns only after a signal
W_Timeout_Untimed ==
    /\ wpc = "waiting"
    /\ woken
    /\ wpc' = "check"
    /\ woken' = FALSE
    /\ UNCHANGED << gen_vars, cfg_vars, match_vars, codec, time_vars, queue_vars, wfinal, batch, bidx, in_txn,
                    evt_vars, log_vars, batch_thread_running, store, ppc >>

\* pthread_cond_timedwait returns ETIMEDOUT: break, unlock
W_Timeout ==
    /\ wpc = "waiting"
    /\ wpc' = "check"
    /\ woken' = FALSE
    /\ UNCHANGED << gen_vars, cfg_vars, match_vars, codec, time_vars, queue_vars, wfinal, batch, bidx, in_txn,
                    evt_vars, log_vars, batch_thread_running, store, ppc >>

\* if (batch_thread_running || msg_queue_size > 0) flush_batch();
W_Check ==
    /\ wpc = "check"
    /\ wpc' = IF batch_thread_running # 0 \/ msg_queue_size > 0 THEN "take" ELSE "loop"
    /\ UNCHANGED << gen_vars, cfg_vars, match_vars, codec, time_vars, queue_vars, wfinal, batch, bidx, in_txn,
                    evt_vars, log_vars, batch_thread_running, store, ppc, woken >>

\* a plausible slip: only the head pointer is reset
QueueTaken_KeepsTail ==
    /\ msg_queue' = << >>
    /\ msg_queue_head' = NullEntry
    /\ msg_queue_tail' = msg_queue_tail
    /\ msg_queue_size' = 0

\* msg_queue_head = msg_queue_tail = NULL; msg_queue_size = 0;
QueueTaken ==
    /\ msg_queue' = << >>
    /\ msg_queue_head' = NullEntry
    /\ msg_queue_tail' = NullEntry
    /\ msg_queue_size' = 0

\* flush_batch up to the test of the handles: under the mutex the list is
\* taken and the queue emptied; without store or statement it returns
W_Take ==
    /\ wpc = "take"
    /\ IF msg_queue_size = 0
       THEN /\ wpc' = FlushReturn
            /\ UNCHANGED << queue_vars, batch, bidx >>
       ELSE /\ QueueTaken
            /\ bidx' = 1
            /\ IF msg_db = "NULL" \/ insert_stmt = "NULL"
               THEN batch' = << >> /\ wpc' = FlushReturn
               ELSE batch' = TakeBatch(msg_queue) /\ wpc' = "begin"
    /\ UNCHANGED << gen_vars, cfg_vars, match_vars, codec, time_vars, wfinal, in_txn, evt_vars, log_vars,
                    batch_thread_running, store, ppc, woken >>

\* sqlite3_exec(msg_db, "BEGIN TRANSACTION")
W_Begin ==
    /\ wpc = "begin"
    /\ in_txn' = TRUE
    /\ wpc' = "step"
    /\ UNCHANGED << gen_vars, cfg_vars, match_vars, codec, time_vars, queue_vars, wfinal, batch, bidx, evt_vars,
                    log_vars, batch_thread_running, store, ppc, woken >>

\* one turn of while (entry != NULL): bind, step, reset, entry = entry->next
W_Step ==
    /\ wpc = "step"
    /\ bidx <= Len(batch)
    /\ LET entry == batch[bidx] IN
        /\ step_log' = Append(step_log, entry.seq)
        /\ IF StepDone(store, entry)
           THEN /\ store' = store \cup {RowOf(entry)}
                /\ ins_log' = Append(ins_log, entry.seq)
           ELSE UNCHANGED << store, ins_log >>
    /\ bidx' = bidx + 1
    /\ wpc' = IF bidx + 1 > Len(batch) THEN "commit" ELSE "step"
    /\ UNCHANGED << gen_vars, cfg_vars, match_vars, codec, time_vars, queue_vars, wfinal, batch, in_txn, evt_vars,
                    enq_log, del_log, cleanup_queue, free_log, batch_thread_running,
                    ppc, woken >>

\* sqlite3_exec(msg_db, "COMMIT"), then the entries of the batch are freed
W_Commit ==
    /\ wpc = "commit"
    /\ in_txn' = FALSE
    /\ batch' = << >>
    /\ bidx' = 1
    /\ free_log' = free_log \cup {batch[i].seq : i \in 1..Len(batch)}
    /\ wpc' = FlushReturn
    /\ UNCHANGED << gen_vars, cfg_vars, match_vars, codec, time_vars, queue_vars, wfinal, evt_vars,
                    enq_log, step_log, ins_log, del_log, cleanup_queue,
                    batch_thread_running, store, ppc, woken >>

Writer ==
    \/ W_Loop
    \/ W_WaitTest
    \/ W_Wake
    \/ W_Timeout
    \/ W_Check
    \/ W_Take
    \/ W_Begin
    \/ W_Step
    \/ W_Commit

(***************************************************************************)
(* Lifecycle, on the broker's thread.                                      *)
(***************************************************************************)
InitOutcomes == { AllOk, [AllOk EXCEPT !.thread = FALSE] }

\* the value of option exclude_topics, split at the commas
ExcludeOption == << << "c", "/", "#" >> >>

\* texts of option batch_size
BatchSizeOptions == { << "2" >> }

Digits == << "0", "1", "2", "3", "4", "5", "6", "7", "8", "9" >>

IsDigit(c) == \E d \in 1..10 : Digits[d] = c

DigitValue(c) == (CHOOSE d \in 1..10 : Digits[d] = c) - 1

\* the digits at the front of a text, read in base 10 onto acc
RECURSIVE ReadDigits(_, _)
ReadDigits(str, acc) ==
    IF str # << >> /\ IsDigit(Head(str))
    THEN ReadDigits(Tail(str), 10 * acc + DigitValue(Head(str)))
    ELSE acc

\* atoi: white space is skipped, then an optional sign, then the digits up to
\* the first other character; a text without digits there reads as 0.
\* (A value beyond the range of long is undefined; the texts here are short.)
RECURSIVE atoi(_)
atoi(str) ==
    IF str = << >> THEN 0
    ELSE IF Head(str) = " " THEN atoi(Tail(str))
    ELSE IF Head(str) = "-" THEN 0 - ReadDigits(Tail(str), 0)
    ELSE IF Head(str) = "+" THEN ReadDigits(Tail(str), 0)
    ELSE ReadDigits(str, 0)

\* val > 0 && val <= MAX_QUEUE_SIZE
BatchSizeAccepted(val) == val > 0 /\ val <= MAX_QUEUE_SIZE

\* mosquitto_plugin_init with options exclude_topics and batch_size = bs; o
\* tells which steps succeed.  After a failed sqlite3_open the handle is
\* closed and the pointer kept; the statements are prepared only when the
\* table statement ran.  The callback is registered in every case and the
\* result of the registration is returned.
mosquitto_plugin_init(o, bs) ==
    /\ ppc = "unloaded"
    /\ exclude_patterns' = exclude_patterns \o ExcludeOption
    /\ batch_size' = IF BatchSizeAccepted(atoi(bs)) THEN atoi(bs) ELSE batch_size
    /\ opt_batch_size' = bs
    /\ msg_db' = IF o.open THEN "open" ELSE "closed"
    /\ insert_stmt' = IF o.open /\ o.table
                      THEN (IF o.insert THEN "prepared" ELSE "NULL")
                      ELSE insert_stmt
    /\ delete_stmt' = IF o.open /\ o.table
                      THEN (IF o.delete THEN "prepared" ELSE "NULL")
                      ELSE delete_stmt
    /\ ulid_gen' = ulid_generator_init(ulid_gen, ULID_PARANOID)
    /\ batch_thread_running' = IF o.thread THEN 1 ELSE 0
    /\ wpc' = IF o.thread THEN "loop" ELSE wpc
    /\ registered' = TRUE
    /\ init_rc' = "MOSQ_ERR_SUCCESS"
    /\ init_outcome' = o
    /\ ppc' = "loaded"
    /\ UNCHANGED << gen_calls, prev_last, prev_ts, read_ts, match_vars, codec, time_vars, queue_vars,
                    wfinal, batch, bidx, in_txn, evt_vars, log_vars, store, woken >>

\* pthread_join(batch_thread, NULL) returns when batch_worker has returned
JoinReturns_NoWait == TRUE

JoinReturns == wpc = "done"

\* mosquitto_plugin_cleanup up to the join: the flag is cleared and the
\* condition signalled
CleanupStop ==
    /\ ppc = "loaded"
    /\ IF batch_thread_running # 0
       THEN /\ batch_thread_running' = 0
            /\ woken' = (woken \/ Signalled)
            /\ ppc' = "joining"
       ELSE /\ UNCHANGED << batch_thread_running, woken >>
            /\ ppc' = "finalizing"
    /\ cleanup_queue' = SeqsOf(msg_queue)
    /\ UNCHANGED << gen_vars, cfg_vars, match_vars, codec, time_vars, queue_vars, writer_vars, evt_vars, enq_log,
                    step_log, ins_log, del_log, free_log, store >>

\* the rest of mosquitto_plugin_cleanup, once the join has returned
CleanupFinish ==
    /\ ppc \in {"joining", "finalizing"}
    /\ ppc = "joining" => JoinReturns
    /\ exclude_patterns' = << >>
    /\ insert_stmt' = IF insert_stmt # "NULL" THEN "finalized" ELSE insert_stmt
    /\ delete_stmt' = IF delete_stmt # "NULL" THEN "finalized" ELSE delete_stmt
    /\ msg_db' = IF msg_db # "NULL" THEN "closed" ELSE msg_db
    /\ registered' = FALSE
    /\ ppc' = "cleaned"
    /\ UNCHANGED << gen_vars, batch_size, init_rc, init_outcome, opt_batch_size,
                    match_vars, codec, time_vars, queue_vars, writer_vars, evt_vars, log_vars,
                    batch_thread_running, store, woken >>

(***************************************************************************)
(* The plugin: events the broker delivers, and the specification.          *)
(***************************************************************************)
T_da == << "d", "/", "a" >>

T_cx == << "c", "/", "x" >>

TagA == [name |-> "tag", value |-> << 65 >>]

\* a retained publish with a property, a delete request without an id, and
\* two publishes on an excluded topic
BaseEvents ==
    { [topic |-> T_da, retain |-> TRUE, payload |-> << 112 >>, qos |-> 2,
       props |-> << TagA >>],
      [topic |-> T_da, retain |-> TRUE, payload |-> << >>, qos |-> 2,
       props |-> << TagA >>],
      [topic |-> T_cx, retain |-> FALSE, payload |-> << 112 >>, qos |-> 0,
       props |-> << >>],
      [topic |-> T_cx, retain |-> TRUE, payload |-> << >>, qos |-> 2,
       props |-> << >>] }

\* delete requests that name an id a subscriber has seen on an earlier message
TargetedDeletes ==
    { [topic |-> T_da, retain |-> TRUE, payload |-> << >>, qos |-> 2,
       props |-> << [name |-> "ulid", value |-> hist[k].ulid] >>] :
      k \in 1..Len(hist) }

Events == BaseEvents \cup TargetedDeletes

\* the clock of the plugin runs forward: a reading is never below the one
\* before it (SpecGen covers a clock that goes back)
PluginClock == {1999, 2000}

ClockReadings == {ts \in PluginClock : ts >= ulid_gen.last_ts}

PluginDraws == { [k \in 1..10 |-> IF k = 10 THEN 255 ELSE 0] }

Init ==
    /\ ulid_gen = StaticGenerator
    /\ StaticOther
    /\ NoMatchCall
    /\ NoCodecCall
    /\ NoWaitCall

PluginInit ==
    /\ \E o \in InitOutcomes, bs \in BatchSizeOptions : mosquitto_plugin_init(o, bs)

\* the broker calls the registered callback with an event of E; the attach
\* of the property returns a value of R
CallbackWith(E, R) ==
    /\ ppc = "loaded"
    /\ registered
    /\ calls < MaxCalls
    /\ \E e \in E, ts \in ClockReadings, draw \in PluginDraws, add_rc \in R :
           on_message_callback(e, ts, draw, add_rc)
    /\ UNCHANGED << cfg_vars, match_vars, codec, time_vars, writer_vars, step_log, ins_log, cleanup_queue, free_log,
                    batch_thread_running, ppc >>

\* the same while memory lasts
CallbackOn(E) == CallbackWith(E, AttachOk)

Callback == CallbackOn(Events)

Cleanup ==
    \/ CleanupStop
    \/ CleanupFinish

Next ==
    \/ PluginInit
    \/ Callback
    \/ Cleanup
    \/ Writer

Spec == Init /\ [][Next]_vars

FairSpec == Spec /\ WF_vars(Writer)

(***************************************************************************)
(* C3 - C10: queue, callback, writer and cleanup.                          *)
(***************************************************************************)
Range(f) == {f[i] : i \in 1..Len(f)}

IsPrefix(a, b) == Len(a) <= Len(b) /\ \A i \in 1..Len(a) : a[i] = b[i]

\* the event is a delete request: retain set and payload length 0
DeleteShaped(e) == e.retain /\ Len(e.payload) = 0

\* some configured pattern matches the topic
MatchesExclusion(topic) ==
    \E i \in 1..Len(exclude_patterns) :
        topic_matches_pattern(exclude_patterns[i], topic) = 1

\* the step is a callback
CallbackReturned == calls' = calls + 1

\* nothing is left for the writer to hand to the store
Drained == msg_queue = << >> /\ batch = << >> /\ wpc \notin {"begin", "step", "commit"}

\* C3: in every reachable state the queue holds at most the hard maximum of
\* entries.
C3_QueueBounded == Len(msg_queue) <= QueueHardMax /\ msg_queue_size <= QueueHardMax

\* C4: once the writer has drained the queue, no row exists whose topic and
\* id were named by a delete request processed after the publish that minted
\* the id.
C4_DeleteAfterDrain ==
    Drained =>
        \A k \in del_log :
            ~ \E r \in store : r.topic = hist[k].topic /\ r.ulid = hist[k].ulid

\* C5: a callback for a delete request leaves the queue as it was and adds no
\* row, and no entry ever pushed came from a delete request.
C5_DeleteNeverInserts ==
    /\ [][(CallbackReturned /\ DeleteShaped(evt'))
              => /\ msg_queue' = msg_queue
                 /\ msg_queue_size' = msg_queue_size
                 /\ store' \subseteq store]_vars
    /\ [](\A k \in Range(enq_log) : ~(hist[k].retain /\ hist[k].payloadlen = 0))

\* a delete request found its target and removed the only row
C5_Witness ==
    /\ calls >= 2
    /\ DeleteShaped(evt)
    /\ hist[calls].path = "delete"
    /\ Len(ins_log) = 1
    /\ store = {}
    /\ msg_queue = << >>

\* C6: when a callback has returned, the property list is the list the broker
\* gave, unchanged, followed by one property named ulid whose value is the
\* 26-character string of the id this call minted.
C6_UlidAttached ==
    calls >= 1 =>
        /\ Len(out_props) = Len(evt.props) + 1
        /\ SubSeq(out_props, 1, Len(evt.props)) = evt.props
        /\ out_props[Len(out_props)].name = "ulid"
        /\ out_props[Len(out_props)].value = ulid_encode(CurId)
        /\ Len(out_props[Len(out_props)].value) = 26
        /\ out_props[Len(out_props)].value = hist[calls].ulid

\* a delete request without a target that came with a property of its own
C6_Witness ==
    /\ calls >= 1
    /\ hist[calls].path = "delete_notarget"
    /\ evt.props = << TagA >>
    /\ out_props[1] = TagA
    /\ out_props[2].name = "ulid"

\* C7: a callback for a topic that a configured pattern matches changes
\* neither the queue nor the store, and attaches the ulid property.
C7_ExcludedUntouched ==
    [][(CallbackReturned /\ MatchesExclusion(evt'.topic))
           => /\ msg_queue' = msg_queue
              /\ msg_queue_size' = msg_queue_size
              /\ store' = store
              /\ out_props' = Append(evt'.props,
                                     [name |-> "ulid", value |-> hist'[calls'].ulid])]_vars

\* an empty retained publish on an excluded topic, with rows stored and an
\* entry queued
C7_Witness ==
    /\ calls >= 3
    /\ hist[calls].path = "excluded"
    /\ DeleteShaped(evt)
    /\ store # {}
    /\ msg_queue # << >>
    /\ out_props[Len(out_props)].name = "ulid"

C9_InsertOrder == IsPrefix(step_log, enq_log)

\* three entries stepped, the first in one batch, the others together in the
\* next
C9_Witness ==
    /\ Len(step_log) = 3
    /\ wpc = "commit"
    /\ Len(batch) = 2

\* C10: once cleanup has finalized a statement or closed the store, every
\* entry that was queued when cleanup began has been stepped.
C10_DrainBeforeClose ==
    (insert_stmt = "finalized" \/ delete_stmt = "finalized" \/ msg_db = "closed")
        => Range(cleanup_queue) \subseteq Range(step_log)

\* cleanup began with two entries queued and has closed the store
C10_Witness ==
    /\ ppc = "cleaned"
    /\ Len(cleanup_queue) = 2
    /\ msg_db = "closed"
    /\ Range(cleanup_queue) \subseteq Range(step_log)

(***************************************************************************)
(* Delete requests on two persisted topics.                                *)
(***************************************************************************)
T_db == << "d", "/", "b" >>

\* a retained publish on each of two topics that no pattern matches, and a
\* delete request without an id on the first
DelBaseEvents ==
    { [topic |-> T_da, retain |-> TRUE, payload |-> << 112 >>, qos |-> 1,
       props |-> << >>],
      [topic |-> T_db, retain |-> TRUE, payload |-> << 113 >>, qos |-> 1,
       props |-> << >>],
      [topic |-> T_da, retain |-> TRUE, payload |-> << >>, qos |-> 1,
       props |-> << TagA >>] }

\* delete requests on the second topic that name the id of an earlier
\* message, of either topic
DelTargeted ==
    { [topic |-> T_db, retain |-> TRUE, payload |-> << >>, qos |-> 1,
       props |-> << TagA, [name |-> "ulid", value |-> hist[k].ulid] >>] :
      k \in 1..Len(hist) }

DelEvents == DelBaseEvents \cup DelTargeted

CallbackDel == CallbackOn(DelEvents)

NextDel ==
    \/ PluginInit
    \/ CallbackDel
    \/ Cleanup
    \/ Writer

SpecDel == Init /\ [][NextDel]_vars

(***************************************************************************)
(* C11 - C13: what a delete request removes.                               *)
(***************************************************************************)
\* the id a delete request names in its ulid property
NamedId(e) == FindUlidProperty(e.props).value

\* the event is handled as a delete request and carries a ulid property
TargetedDelete(e) ==
    /\ DeleteShaped(e)
    /\ ~MatchesExclusion(e.topic)
    /\ \E i \in 1..Len(e.props) : e.props[i].name = "ulid"

\* the event is handled as a delete request and carries no ulid property
FallbackDelete(e) ==
    /\ DeleteShaped(e)
    /\ ~MatchesExclusion(e.topic)
    /\ \A i \in 1..Len(e.props) : e.props[i].name # "ulid"

\* C11: a callback for a delete request on topic T with property ulid=X
\* leaves exactly the rows other than (T, X): the row (T, X) is gone if it
\* was there, every other row stays, none is added; and when X is the id of a
\* row of another topic the store is unchanged.
C11_TargetedDelete ==
    [][(CallbackReturned /\ TargetedDelete(evt'))
           => /\ store' \subseteq store
              /\ \A r \in store :
                    (r \notin store') <=> (r.topic = evt'.topic /\ r.ulid = NamedId(evt'))
              /\ (\E r \in store : r.ulid = NamedId(evt') /\ r.topic # evt'.topic)
                    => store' = store]_vars

\* a delete request on d/b named the id of the stored row of d/a, and the
\* row is still there
C11_Witness ==
    /\ calls >= 2
    /\ TargetedDelete(evt)
    /\ hist[calls].path = "delete"
    /\ evt.topic = T_db
    /\ \E r \in store : r.ulid = NamedId(evt) /\ r.topic = T_da

\* the rows of a topic
RowsOf(rows, topic) == {r \in rows : r.topic = topic}

\* the number of the callback that minted an id
CallOf(id) == CHOOSE k \in 1..Len(hist) : hist[k].ulid = id

\* C12: a callback for a delete request on topic T without a ulid property,
\* when the store holds rows of T, removes exactly one row: the row of T with
\* the greatest id, which is the row of the latest publish among the stored
\* rows of T.
C12_FallbackDeletesLatest ==
    [][(CallbackReturned /\ FallbackDelete(evt') /\ RowsOf(store, evt'.topic) # {})
           => \E m \in RowsOf(store, evt'.topic) :
                 /\ \A o \in RowsOf(store, evt'.topic) :
                        o = m \/ (LexLess(o.ulid, m.ulid) /\ CallOf(o.ulid) < CallOf(m.ulid))
                 /\ store' = store \ {m}]_vars

\* two messages of d/a were stored and a delete request without an id took
\* the second, leaving the first
C12_Witness ==
    /\ calls = 3
    /\ FallbackDelete(evt)
    /\ hist[calls].path = "delete"
    /\ Len(ins_log) = 2
    /\ hist[1].topic = T_da
    /\ hist[2].topic = T_da
    /\ {r.ulid : r \in store} = {hist[1].ulid}

\* C13: a callback for a delete request without a ulid property on a topic
\* that has no row changes neither the store nor the queue, and the
\* properties of the event end with ulid = the id this call minted.
C13_NoTargetNoChange ==
    [][(CallbackReturned /\ FallbackDelete(evt') /\ RowsOf(store, evt'.topic) = {})
           => /\ store' = store
              /\ msg_queue' = msg_queue
              /\ msg_queue_size' = msg_queue_size
              /\ out_props' = Append(evt'.props,
                                     [name |-> "ulid",
                                      value |-> ulid_encode(ulid_gen'.last)])]_vars

\* a delete request without an id on d/a while the store holds a row of d/b
\* only and an entry is queued
C13_Witness ==
    /\ calls = 3
    /\ FallbackDelete(evt)
    /\ hist[calls].path = "delete_notarget"
    /\ store # {}
    /\ \A r \in store : r.topic = T_db
    /\ msg_queue # << >>
    /\ out_props[Len(out_props)].value = hist[calls].ulid

(***************************************************************************)
(* C14: a failed initialization.                                           *)
(***************************************************************************)
\* mosquitto_plugin_init has run and one of its steps failed
InitFailed == init_rc # "none" /\ init_outcome # AllOk

\* C14: when a step of mosquitto_plugin_init has failed, the init did not
\* return success, the callback is not registered and the plugin is unloaded.
C14_InitFailureFatal ==
    InitFailed => /\ init_rc # "MOSQ_ERR_SUCCESS"
                  /\ ~registered
                  /\ ppc = "unloaded"

(***************************************************************************)
(* The callback when the attach of the property can run out of memory.     *)
(***************************************************************************)
CallbackAlloc == CallbackWith(BaseEvents, AttachAny)

NextAlloc ==
    \/ PluginInit
    \/ CallbackAlloc
    \/ Cleanup
    \/ Writer

SpecAlloc == Init /\ [][NextAlloc]_vars

\* C15: whatever happened inside it, the callback returned success.
C15_AlwaysSuccess == calls >= 1 => cb_rc = "MOSQ_ERR_SUCCESS"

(***************************************************************************)
(* The option batch_size alone.                                            *)
(***************************************************************************)
OptChars == {"0", "1", "7", "-", "x"}

\* all texts over a set of characters up to a length
RECURSIVE TextsUpTo(_, _)
TextsUpTo(chars, n) ==
    IF n = 0 THEN { << >> }
    ELSE LET shorter == TextsUpTo(chars, n - 1)
         IN shorter \cup {Append(t, c) : t \in shorter, c \in chars}

\* texts around the two limits
LimitTexts ==
    { << "1", "0", "0" >>,
      << "9", "9", "9", "9" >>,
      << "1", "0", "0", "0", "0" >>,
      << "1", "0", "0", "0", "1" >>,
      << "1", "4", "9", "9", "9" >>,
      << "1", "5", "0", "0", "0" >>,
      << "1", "5", "0", "0", "1" >>,
      << "-", "1", "5", "0", "0", "0" >> }

OptTexts == TextsUpTo(OptChars, MaxOptLen) \cup LimitTexts

InitOpt == \E bs \in OptTexts : mosquitto_plugin_init(AllOk, bs)

NextOpt == InitOpt

SpecOpt == Init /\ [][NextOpt]_vars

(***************************************************************************)
(* C16: the accepted range of batch_size.                                  *)
(***************************************************************************)
RECURSIVE Pow10(_)
Pow10(n) == IF n = 0 THEN 1 ELSE 10 * Pow10(n - 1)

\* how many decimal digits a text starts with
RECURSIVE LeadingDigits(_)
LeadingDigits(t) ==
    IF t # << >> /\ Head(t) \in {"0", "1", "2", "3", "4", "5", "6", "7", "8", "9"}
    THEN 1 + LeadingDigits(Tail(t))
    ELSE 0

\* the number a text of decimal digits denotes, by place value
PlaceValue(t, n) ==
    LET val(c) == CHOOSE v \in 0..9 : Digits[v + 1] = c
        term[i \in 0..n] == IF i = 0 THEN 0 ELSE term[i - 1] + val(t[i]) * Pow10(n - i)
    IN term[n]

\* the value v of an option text: the decimal number it starts with, negative
\* after a minus sign; a text that starts with no number has no value in the
\* range, which 0 stands for
OptionNumber(t) ==
    IF t # << >> /\ Head(t) = "-"
    THEN 0 - PlaceValue(Tail(t), LeadingDigits(Tail(t)))
    ELSE PlaceValue(t, LeadingDigits(t))

\* C16: after the init with option batch_size = v the threshold is v when
\* 1 <= v <= 15000 and the default 100 for every other value.
C16_BatchSizeRange ==
    init_rc # "none" =>
        batch_size = IF 1 <= OptionNumber(opt_batch_size)
                         /\ OptionNumber(opt_batch_size) <= 15000
                      THEN OptionNumber(opt_batch_size)
                      ELSE 100

(***************************************************************************)
(* Publishes of every shape on a persisted topic, after an init in which   *)
(* every step succeeded.                                                   *)
(***************************************************************************)
\* empty and not retained; retained with a zero byte inside the payload; not
\* retained with a payload; retained and empty
InsEvents ==
    { [topic |-> T_da, retain |-> FALSE, payload |-> << >>, qos |-> 0,
       props |-> << >>],
      [topic |-> T_da, retain |-> TRUE, payload |-> << 112, 0, 113 >>, qos |-> 2,
       props |-> << TagA >>],
      [topic |-> T_da, retain |-> FALSE, payload |-> << 113 >>, qos |-> 1,
       props |-> << >>],
      [topic |-> T_da, retain |-> TRUE, payload |-> << >>, qos |-> 0,
       props |-> << >>] }

PluginInitOk == \E bs \in BatchSizeOptions : mosquitto_plugin_init(AllOk, bs)

CallbackIns == CallbackOn(InsEvents)

NextIns ==
    \/ PluginInitOk
    \/ CallbackIns
    \/ Cleanup
    \/ Writer

SpecIns == Init /\ [][NextIns]_vars

(***************************************************************************)
(* C17 - C19: what is stored for a publish, and which publishes are.       *)
(***************************************************************************)
\* C17: the payload of every row is the payload of its publish, byte for
\* byte, over the whole payload length.
C17_PayloadPreserved ==
    \A r \in store : r.payload = hist[CallOf(r.ulid)].payload

\* C18: every row belongs to exactly one callback, the one whose outbound
\* event got this row's id as its ulid property, and the row has the topic,
\* the retain flag (1 or 0) and the qos of that callback's publish.
C18_RowMatchesPublish ==
    \A r \in store :
        /\ Cardinality({k \in 1..Len(hist) : hist[k].attached = << r.ulid >>}) = 1
        /\ \E k \in 1..Len(hist) :
              /\ hist[k].attached = << r.ulid >>
              /\ r.topic = hist[k].topic
              /\ r.retain = (IF hist[k].retain THEN 1 ELSE 0)
              /\ r.qos = hist[k].qos

\* rows of a retained qos 2 publish and of a plain qos 1 publish
C18_Witness ==
    /\ \E r \in store : r.retain = 1 /\ r.qos = 2
    /\ \E r \in store : r.retain = 0 /\ r.qos = 1
    /\ out_props[Len(out_props)].value = hist[calls].ulid

\* C19: a callback on a topic that is not excluded leaves the queue and the
\* store as they were when retain is set and the payload is empty; in every
\* other case (retain clear, or payload not empty) it pushes exactly one
\* entry, with the id it minted, and removes no row.
C19_DeleteExactlyWhen ==
    [][(CallbackReturned /\ ~MatchesExclusion(evt'.topic))
           => IF evt'.retain /\ Len(evt'.payload) = 0
              THEN msg_queue' = msg_queue /\ msg_queue_size' = msg_queue_size
              ELSE /\ Len(msg_queue') = Len(msg_queue) + 1
                   /\ SubSeq(msg_queue', 1, Len(msg_queue)) = msg_queue
                   /\ msg_queue'[Len(msg_queue')].ulid = hist'[calls'].ulid
                   /\ msg_queue_size' = msg_queue_size + 1
                   /\ store' = store]_vars

\* an empty publish without retain was pushed while a row was stored
C19_Witness ==
    /\ calls >= 2
    /\ ~evt.retain
    /\ Len(evt.payload) = 0
    /\ hist[calls].path = "insert"
    /\ store # {}
    /\ msg_queue # << >>
    /\ msg_queue[Len(msg_queue)].ulid = hist[calls].ulid

(***************************************************************************)
(* The topic matcher alone: any short pattern against any short topic.     *)
(***************************************************************************)
\* characters of exclusion patterns: a letter, the separator, the wildcards
PatternChars == {"a", "/", "+", "#"}

\* characters of publish topics: two letters, the separator, and the '$' that
\* starts the broker's own topics ($SYS/...)
TopicChars == {"a", "b", "/", "$"}

MatchPatterns == TextsUpTo(PatternChars, MaxTopicLen)

MatchTopics == TextsUpTo(TopicChars, MaxTopicLen)

InitMatch ==
    /\ ulid_gen = StaticGenerator
    /\ StaticOther
    /\ m_pattern \in MatchPatterns
    /\ m_topic \in MatchTopics
    /\ m_result = -1
    /\ NoCodecCall
    /\ NoWaitCall

\* one call of topic_matches_pattern(m_pattern, m_topic)
MatchCall ==
    /\ m_result = -1
    /\ m_result' = topic_matches_pattern(m_pattern, m_topic)
    /\ UNCHANGED << m_pattern, m_topic, codec, time_vars, gen_vars, cfg_vars, queue_vars, writer_vars,
                    evt_vars, log_vars, batch_thread_running, store, ppc, woken >>

NextMatch == MatchCall

SpecMatch == InitMatch /\ [][NextMatch]_vars

(***************************************************************************)
(* C20: the trailing '#'.                                                  *)
(***************************************************************************)
\* a is the front part of b
StartsWith(b, a) == Len(a) <= Len(b) /\ SubSeq(b, 1, Len(a)) = a

\* a topic filter prefix: not empty, no wildcard in it
PlainPrefix(t) == t # << >> /\ \A i \in 1..Len(t) : t[i] \notin {"+", "#"}

\* C20: for a pattern P/# the matcher returns 1 for the topic P itself and
\* for every topic that starts with P/.
C20_HashZeroOrMore ==
    (m_result # -1 /\ Len(m_pattern) >= 3) =>
        LET P == SubSeq(m_pattern, 1, Len(m_pattern) - 2) IN
        (/\ m_pattern = P \o << "/", "#" >>
         /\ PlainPrefix(P)
         /\ (m_topic = P \/ StartsWith(m_topic, P \o << "/" >>)))
            => m_result = 1

(***************************************************************************)
(* C21, C22: '+' and the match of an MQTT subscription.                    *)
(***************************************************************************)
\* the levels of a topic or filter: the texts between the separators
RECURSIVE Levels(_)
Levels(t) ==
    IF \A i \in 1..Len(t) : t[i] # "/" THEN << t >>
    ELSE LET i == CHOOSE j \in 1..Len(t) :
                      t[j] = "/" /\ \A k \in 1..(j - 1) : t[k] # "/"
         IN << SubSeq(t, 1, i - 1) >> \o Levels(SubSeq(t, i + 1, Len(t)))

\* a topic name that can be published to: not empty, no wildcard character
ValidTopic(t) == t # << >> /\ \A i \in 1..Len(t) : t[i] \notin {"+", "#"}

\* a topic filter that can be subscribed to: not empty, a wildcard is a whole
\* level, and '#' is the last level
ValidFilter(f) ==
    /\ f # << >>
    /\ \A i \in 1..Len(Levels(f)) :
          LET l == Levels(f)[i] IN
          /\ (\E k \in 1..Len(l) : l[k] \in {"+", "#"}) => Len(l) = 1
          /\ l = << "#" >> => i = Len(Levels(f))

\* level by level: '+' takes one topic level whatever it holds, any other
\* filter level takes the equal topic level, and nothing is left over
RECURSIVE PlusMatch(_, _)
PlusMatch(fl, tl) ==
    IF fl = << >> \/ tl = << >> THEN fl = << >> /\ tl = << >>
    ELSE /\ (Head(fl) = << "+" >> \/ Head(fl) = Head(tl))
         /\ PlusMatch(Tail(fl), Tail(tl))

\* C21: for a filter whose levels are '+' or plain text (at least one '+'),
\* the matcher returns 1 exactly when filter and topic have the same number
\* of levels and every level matches, '+' taking any one level, the empty
\* level and the last level included.
C21_PlusOneLevel ==
    (/\ m_result # -1
     /\ ValidFilter(m_pattern)
     /\ ValidTopic(m_topic)
     /\ \E i \in 1..Len(m_pattern) : m_pattern[i] = "+"
     /\ \A i \in 1..Len(m_pattern) : m_pattern[i] # "#")
        => (m_result = 1 <=> PlusMatch(Levels(m_pattern), Levels(m_topic)))

\* the level rule of an MQTT subscription: '#' takes all remaining levels,
\* none included; '+' takes one level; any other level takes its equal
RECURSIVE MqttLevelsMatch(_, _)
MqttLevelsMatch(fl, tl) ==
    IF fl = << >> THEN tl = << >>
    ELSE IF Head(fl) = << "#" >> THEN TRUE
    ELSE IF tl = << >> THEN FALSE
    ELSE /\ (Head(fl) = << "+" >> \/ Head(fl) = Head(tl))
         /\ MqttLevelsMatch(Tail(fl), Tail(tl))

\* a subscription with filter f receives a publish to topic t: the levels
\* match, and a filter that starts with a wildcard takes no topic that
\* starts with '$'
MqttAccepts(f, t) ==
    /\ MqttLevelsMatch(Levels(f), Levels(t))
    /\ ~(t[1] = "$" /\ f[1] \in {"+", "#"})

\* C22: when the matcher returns 1 for a valid filter and a valid topic, an
\* MQTT subscription with that filter receives a publish to that topic.
C22_MatchImpliesMqtt ==
    (/\ m_result = 1
     /\ ValidFilter(m_pattern)
     /\ ValidTopic(m_topic))
        => MqttAccepts(m_pattern, m_topic)

\* the same, for topics that do not start with '$'
MatchSoundWithoutDollar ==
    (/\ m_result = 1
     /\ ValidFilter(m_pattern)
     /\ ValidTopic(m_topic)
     /\ m_topic[1] # "$")
        => MqttAccepts(m_pattern, m_topic)

(***************************************************************************)
(* ulid_decode: 26 characters -> 16 bytes, or an error.                    *)
(***************************************************************************)
\* the table v for the character codes 0 .. 127: the digits, the letters in
\* both cases with I and L read as 1 and O as 0, and -1 for the rest (U
\* included); the entries for 128 .. 255 are all -1
DecodeLow ==
    << -1, -1, -1, -1, -1, -1, -1, -1, -1, -1, -1, -1, -1, -1, -1, -1,
       -1, -1, -1, -1, -1, -1, -1, -1, -1, -1, -1, -1, -1, -1, -1, -1,
       -1, -1, -1, -1, -1, -1, -1, -1, -1, -1, -1, -1, -1, -1, -1, -1,
       0, 1, 2, 3, 4, 5, 6, 7, 8, 9, -1, -1, -1, -1, -1, -1,
       -1, 10, 11, 12, 13, 14, 15, 16, 17, 1, 18, 19, 1, 20, 21, 0,
       22, 23, 24, 25, 26, -1, 27, 28, 29, 30, 31, -1, -1, -1, -1, -1,
       -1, 10, 11, 12, 13, 14, 15, 16, 17, 1, 18, 19, 1, 20, 21, 0,
       22, 23, 24, 25, 26, -1, 27, 28, 29, 30, 31, -1, -1, -1, -1, -1 >>

\* a plausible slip: the letters are numbered A = 10 .. Z = 35 without
\* leaving out I, L, O and U
v_LettersInARow(c, oob) ==
    IF c >= 128 THEN oob
    ELSE IF c \in 65..90 THEN c - 55
    ELSE IF c \in 97..122 THEN c - 87
    ELSE DecodeLow[c + 1]

\* v[(int)s[i]] for the character code c of s[i].  s is a pointer to char:
\* where char is signed, a code from 128 up is a negative index and the
\* read is outside the table, yielding whatever the memory before it holds
\* (oob); where char is unsigned the entry read is -1, which oob = -1 covers
v(c, oob) == IF c >= 128 THEN oob ELSE DecodeLow[c + 1]

\* the result of ulid_decode(ulid, s): the return value and the bytes
\* written (ulid is left as it was, here before, on an error); each byte is
\* the int expression of the source cut to an unsigned char
ulid_decode(before, s, oob) ==
    LET d(k) == v(s[k + 1], oob) IN
    IF d(0) > 7 THEN [rc |-> 1, ulid |-> before]
    ELSE IF \E i \in 0..25 : d(i) = -1 THEN [rc |-> 2, ulid |-> before]
    ELSE [rc |-> 0,
          ulid |->
            << U8(BitOr(Shl(d(0), 5), Shr(d(1), 0))),
               U8(BitOr(Shl(d(2), 3), Shr(d(3), 2))),
               U8(BitOr(BitOr(Shl(d(3), 6), Shl(d(4), 1)), Shr(d(5), 4))),
               U8(BitOr(Shl(d(5), 4), Shr(d(6), 1))),
               U8(BitOr(BitOr(Shl(d(6), 7), Shl(d(7), 2)), Shr(d(8), 3))),
               U8(BitOr(Shl(d(8), 5), Shr(d(9), 0))),
               U8(BitOr(Shl(d(10), 3), Shr(d(11), 2))),
               U8(BitOr(BitOr(Shl(d(11), 6), Shl(d(12), 1)), Shr(d(13), 4))),
               U8(BitOr(Shl(d(13), 4), Shr(d(14), 1))),
               U8(BitOr(BitOr(Shl(d(14), 7), Shl(d(15), 2)), Shr(d(16), 3))),
               U8(BitOr(Shl(d(16), 5), Shr(d(17), 0))),
               U8(BitOr(Shl(d(18), 3), Shr(d(19), 2))),
               U8(BitOr(BitOr(Shl(d(19), 6), Shl(d(20), 1)), Shr(d(21), 4))),
               U8(BitOr(Shl(d(21), 4), Shr(d(22), 1))),
               U8(BitOr(BitOr(Shl(d(22), 7), Shl(d(23), 2)), Shr(d(24), 3))),
               U8(BitOr(Shl(d(24), 5), Shr(d(25), 0))) >>]

(***************************************************************************)
(* The codec alone: encode two buffers, decode a string, encode again.     *)
(***************************************************************************)
\* byte values: each single bit, alternating bits, none and all
ByteSamples == {0, 1, 2, 4, 8, 16, 32, 64, 128, 85, 170, 255}

\* buffers that are all 0 or all 255 except for one byte
CodecBuffers ==
    { [k \in 1..16 |-> IF k = pos THEN val ELSE bg] :
        pos \in 1..16, val \in ByteSamples, bg \in {0, 255} }

\* second buffers to compare with: one low or high bit set, or every bit
CodecOthers ==
    { [k \in 1..16 |-> IF k = pos THEN val ELSE 0] : pos \in 1..16, val \in {1, 128} }
        \cup { [k \in 1..16 |-> 255] }

\* character codes: digits and letters of the alphabet in both cases, the
\* letters I L O U, the terminator, punctuation, and codes above 127
CharSamples ==
    {48, 55, 56, 57, 65, 72, 74, 90, 97, 122, 73, 76, 79, 85, 105, 108, 111, 117,
     0, 32, 45, 47, 58, 64, 91, 96, 123, 127, 128, 195, 255}

\* strings of 26 codes that are all '0' or all 'Z' after a first '0' or '7',
\* except for one code
CodecStrings ==
    { [k \in 1..26 |-> IF k = pos THEN c ELSE IF k = 1 THEN first ELSE bg] :
        pos \in 1..26, c \in CharSamples, first \in {48, 55}, bg \in {48, 90} }

\* what a read before the table can yield
OobValues == {-1, 0, 7, 48}

InitCodec ==
    /\ ulid_gen = StaticGenerator
    /\ StaticOther
    /\ NoMatchCall
    /\ NoWaitCall
    /\ \/ \E a \in CodecBuffers, b \in CodecOthers :
              codec = [pc |-> "encode", a |-> a, b |-> b, s |-> << >>, oob |-> -1,
                       enc_a |-> << >>, enc_b |-> << >>, rc |-> -1, dec |-> ZeroId,
                       reenc |-> << >>]
       \/ \E str \in CodecStrings, oob \in OobValues :
              codec = [pc |-> "decode", a |-> ZeroId, b |-> ZeroId, s |-> str,
                       oob |-> oob, enc_a |-> << >>, enc_b |-> << >>, rc |-> -1,
                       dec |-> ZeroId, reenc |-> << >>]

CodecUnchanged ==
    UNCHANGED << gen_vars, cfg_vars, match_vars, time_vars, queue_vars, writer_vars, evt_vars,
                 log_vars, batch_thread_running, store, ppc, woken >>

\* ulid_encode of both buffers; the string of the first is decoded next
EncodeCall ==
    /\ codec.pc = "encode"
    /\ codec' = [codec EXCEPT !.pc = "decode",
                              !.enc_a = ulid_encode(codec.a),
                              !.enc_b = ulid_encode(codec.b),
                              !.s = ulid_encode(codec.a)]
    /\ CodecUnchanged

\* ulid_decode of the string
DecodeCall ==
    /\ codec.pc = "decode"
    /\ LET r == ulid_decode(codec.dec, codec.s, codec.oob) IN
       codec' = [codec EXCEPT !.pc = IF r.rc = 0 THEN "reencode" ELSE "done",
                              !.rc = r.rc,
                              !.dec = r.ulid]
    /\ CodecUnchanged

\* ulid_encode of the decoded bytes
ReencodeCall ==
    /\ codec.pc = "reencode"
    /\ codec' = [codec EXCEPT !.pc = "done", !.reenc = ulid_encode(codec.dec)]
    /\ CodecUnchanged

NextCodec ==
    \/ EncodeCall
    \/ DecodeCall
    \/ ReencodeCall

SpecCodec == InitCodec /\ [][NextCodec]_vars

(***************************************************************************)
(* C23 - C26: round trips, order and errors of the codec.                  *)
(***************************************************************************)
\* the string was made by ulid_encode from the buffer a
FromBuffer == codec.enc_a # << >>

\* ulid_decode has returned
Decoded == codec.rc # -1

\* C23: ulid_decode of the string ulid_encode made from a buffer returns 0
\* and writes exactly the bytes of the buffer.
C23_DecodeOfEncode ==
    (FromBuffer /\ Decoded) => (codec.rc = 0 /\ codec.dec = codec.a)

\* a buffer with bits in every byte went through both calls
C23_Witness ==
    /\ FromBuffer
    /\ Decoded
    /\ codec.a[1] = 255
    /\ codec.a[9] = 170
    /\ codec.dec = codec.a

\* the string is written with the 32 characters ulid_encode uses
Canonical(str) ==
    \A k \in 1..Len(str) : \E i \in 1..32 : str[k] = Crockford[i]

\* C24, as claimed: when ulid_decode returns 0 for a string, ulid_encode of
\* the bytes it wrote is that string.
C24_EncodeOfDecode_AnyAccepted ==
    (codec.pc = "done" /\ codec.rc = 0) => codec.reenc = codec.s

\* C24, amended: for a string of 26 of the 32 characters ulid_encode uses
\* whose first character is at most '7', ulid_decode returns 0 and
\* ulid_encode of the bytes it wrote is that string.
C24_EncodeOfDecode ==
    (/\ codec.pc = "done"
     /\ Len(codec.s) = 26
     /\ Canonical(codec.s)
     /\ codec.s[1] <= 55)
        => (codec.rc = 0 /\ codec.reenc = codec.s)

\* a string given to ulid_decode, starting with '7' and made of 'Z' and a
\* 'J', came back from the second ulid_encode
C24_Witness ==
    /\ codec.pc = "done"
    /\ ~FromBuffer
    /\ codec.s[1] = 55
    /\ \E k \in 2..26 : codec.s[k] = 74
    /\ \E k \in 2..26 : codec.s[k] = 90
    /\ codec.rc = 0
    /\ codec.reenc = codec.s

\* C25: for two buffers a and b, a < b as unsigned big-endian values exactly
\* when ulid_encode(a) < ulid_encode(b) as strings compared byte by byte.
C25_OrderPreserved ==
    FromBuffer =>
        (LexLess(codec.a, codec.b) <=> LexLess(codec.enc_a, codec.enc_b))

\* two buffers that differ first in byte 11, the smaller with all later bits
\* set
C25_Witness ==
    /\ FromBuffer
    /\ codec.a[11] = 0
    /\ codec.b[11] = 1
    /\ codec.a[16] = 255
    /\ \A k \in 1..10 : codec.a[k] = codec.b[k]
    /\ LexLess(codec.enc_a, codec.enc_b)

\* a letter in upper case
Upper(c) == IF c \in 97..122 THEN c - 32 ELSE c

\* the character is one the Crockford alphabet reads: one of its 32
\* characters in either case, or I, L, O in either case
InAlphabet(c) ==
    \/ \E i \in 1..32 : Crockford[i] = Upper(c)
    \/ Upper(c) \in {73, 76, 79}

\* the value the alphabet gives the character: I and L read as 1, O as 0
AlphabetValue(c) ==
    IF Upper(c) \in {73, 76} THEN 1
    ELSE IF Upper(c) = 79 THEN 0
    ELSE (CHOOSE i \in 1..32 : Crockford[i] = Upper(c)) - 1

\* C26: ulid_decode returns 0 exactly for the strings whose 26 characters
\* are all in the alphabet and whose first character has a value of at most
\* 7; for every other string it returns an error.
C26_DecodeErrors ==
    (Decoded /\ ~FromBuffer) =>
        (codec.rc = 0 <=>
            /\ \A k \in 1..26 : InAlphabet(codec.s[k])
            /\ AlphabetValue(codec.s[1]) <= 7)

\* the same on a build where char is unsigned, or when the memory before the
\* table holds -1
DecodeErrorsInBounds == codec.oob = -1 => C26_DecodeErrors

(***************************************************************************)
(* C27: the timestamp part of an id.                                       *)
(***************************************************************************)
\* digit n (0 = lowest) of x written in the given base
RECURSIVE DigitOf(_, _, _)
DigitOf(x, base, n) ==
    IF n = 0 THEN x % base ELSE DigitOf(x \div base, base, n - 1)

\* the place of a character in the alphabet, 0..31
PlaceOf(c) == (CHOOSE i \in 1..32 : Crockford[i] = c) - 1

\* bytes 0-5 are the number x, high byte first
PrefixBytesAre(id, x) ==
    \A k \in 1..6 : id[k] = DigitOf(x, 256, 6 - k)

\* the first 10 characters are the number x in base 32, high digit first
PrefixCharsAre(str, x) ==
    \A k \in 1..10 : PlaceOf(str[k]) = DigitOf(x, 32, 10 - k)

\* C27: after every call of ulid_generate, bytes 0-5 of the id and the first
\* 10 characters of its string are the millisecond clock value that call
\* read, whether the call drew new random bytes or incremented the last id.
C27_TimestampPrefix ==
    gen_calls >= 1 =>
        /\ PrefixBytesAre(CurId, read_ts)
        /\ PrefixCharsAre(ulid_encode(CurId), read_ts)

\* a call that read the same late millisecond as the call before it and
\* incremented the id with a carry out of byte 15
C27_Witness ==
    /\ gen_calls >= 2
    /\ read_ts = LateClock
    /\ prev_ts = LateClock
    /\ PrevId[16] = 255
    /\ CurId[16] = 0
    /\ CurId[3] = 64
    /\ CurId[6] = 5

(***************************************************************************)
(* The plugin while wall-clock time passes.                                *)
(***************************************************************************)
\* hours of wall-clock time followed
MaxHours == 26

HourMs == 3600000

DayMs == 24 * HourMs

\* plugin_opt_retention_days 1; mosquitto_plugin_init has no branch for that
\* key
RetentionDays == 1

\* a retained publish with a payload
RetEvents ==
    { [topic |-> T_da, retain |-> TRUE, payload |-> << 112 >>, qos |-> 1,
       props |-> << >>] }

\* an hour passes; no code of the plugin runs on that occasion
HourPasses ==
    /\ wall_hours < MaxHours
    /\ wall_hours' = wall_hours + 1
    /\ UNCHANGED << gen_vars, cfg_vars, match_vars, codec, wait, queue_vars, writer_vars,
                    evt_vars, log_vars, batch_thread_running, store, ppc, woken >>

\* the publishes arrive in the first hour, when the clock reads PluginClock
CallbackRet == wall_hours = 0 /\ CallbackOn(RetEvents)

NextRet ==
    \/ PluginInitOk
    \/ CallbackRet
    \/ Cleanup
    \/ Writer
    \/ HourPasses

\* the writer thread is scheduled and time passes
SpecRet == Init /\ [][NextRet]_vars /\ WF_vars(Writer) /\ WF_vars(HourPasses)

(***************************************************************************)
(* C28: rows older than the retention horizon.                             *)
(***************************************************************************)
\* the latest reading of the first hour
LastReading == CHOOSE t \in PluginClock : \A u \in PluginClock : u <= t

\* the wall clock in milliseconds
Now == LastReading + wall_hours * HourMs

\* a row whose id was minted at millisecond t is stored and t is before the
\* retention horizon
Expired(t) ==
    /\ t < Now - RetentionDays * DayMs
    /\ \E r \in store : PrefixCharsAre(r.ulid, t)

\* C28: with retention_days greater than zero, whenever a row whose id is
\* older than now minus retention_days is stored while the plugin runs, the
\* row is deleted at some later time (or the plugin is unloaded first).
C28_RetentionSweep ==
    \A t \in PluginClock :
        (ppc = "loaded" /\ Expired(t)) ~> (ppc # "loaded" \/ ~Expired(t))

(***************************************************************************)
(* C29: the user properties kept with a row.                               *)
(***************************************************************************)
\* the names given with plugin_opt_exclude_headers in the configuration the
\* test suite runs with; mosquitto_plugin_init has no branch for that key
ExcludeHeaders == {"header-to-exclude", "another-header"}

\* the name=value pairs of a row's headers column; a row of a table without
\* that column has none
StoredHeaders(r) == IF "headers" \in DOMAIN r THEN r.headers ELSE << >>

\* C29: the headers of every row hold name=value for each user property of
\* its publish whose name is not excluded, and no pair with an excluded
\* name.
C29_HeadersStored ==
    \A r \in store :
        LET e == hist[CallOf(r.ulid)]
            h == StoredHeaders(r)
        IN /\ \A i \in 1..Len(e.props) :
                  e.props[i].name \notin ExcludeHeaders
                      => \E j \in 1..Len(h) : h[j] = e.props[i]
           /\ \A j \in 1..Len(h) : h[j].name \notin ExcludeHeaders

(***************************************************************************)
(* The deadline of the writer's timed wait alone.                          *)
(***************************************************************************)
DEFAULT_FLUSH_INTERVAL_MS == 50

\* if (val > 0 && val <= 10000)
FlushIntervalAccepted(val) == val > 0 /\ val <= 10000

\* texts of plugin_opt_flush_interval: the ends of the accepted range, values
\* just outside it, and values on both sides of one second
FlushIntervalOptions ==
    { << "0" >>, << "1" >>, << "5", "0" >>, << "9", "9", "9" >>,
      << "1", "0", "0", "0" >>, << "1", "0", "0", "1" >>,
      << "2", "0", "0", "0" >>, << "1", "0", "0", "0", "0" >>,
      << "1", "0", "0", "0", "1" >> }

\* what clock_gettime(CLOCK_REALTIME, &timeout) stores. A struct timespec is
\* kept as tv_sec, ms and ns with tv_nsec = ms * 1000000 + ns and
\* 0 <= ns < 1000000: the program adds whole milliseconds to tv_nsec, which
\* leaves ns alone, and tv_nsec >= 1000000000 is ms >= 1000
WaitClockReadings ==
    { [tv_sec |-> sec, ms |-> ms, ns |-> ns] :
        sec \in {0, 7}, ms \in {0, 1, 500, 950, 999}, ns \in {0, 999999} }

\* timeout.tv_nsec += flush_interval_ms * 1000000L;
AddInterval(ts, interval) == [ts EXCEPT !.ms = @ + interval]

\* if (timeout.tv_nsec >= 1000000000L) { timeout.tv_sec++;
\*                                       timeout.tv_nsec -= 1000000000L; }
CarrySecond(ts) ==
    IF ts.ms >= 1000 THEN [ts EXCEPT !.tv_sec = @ + 1, !.ms = @ - 1000] ELSE ts

\* the timespec batch_worker passes to pthread_cond_timedwait
Deadline(now, interval) == CarrySecond(AddInterval(now, interval))

InitWait ==
    /\ ulid_gen = StaticGenerator
    /\ StaticOther
    /\ NoMatchCall
    /\ NoCodecCall
    /\ \E opt \in FlushIntervalOptions, now \in WaitClockReadings :
           wait = [pc |-> "option", opt |-> opt,
                   flush_interval_ms |-> DEFAULT_FLUSH_INTERVAL_MS,
                   now |-> now,
                   timeout |-> [tv_sec |-> 0, ms |-> 0, ns |-> 0]]

WaitUnchanged ==
    UNCHANGED << gen_vars, cfg_vars, match_vars, codec, wall_hours, queue_vars,
                 writer_vars, evt_vars, log_vars, batch_thread_running, store, ppc,
                 woken >>

\* the flush_interval branch of the option loop of mosquitto_plugin_init
ReadFlushInterval ==
    /\ wait.pc = "option"
    /\ LET val == atoi(wait.opt) IN
       wait' = [wait EXCEPT !.pc = "wait",
                            !.flush_interval_ms =
                                IF FlushIntervalAccepted(val) THEN val ELSE @]
    /\ WaitUnchanged

\* batch_worker reads the clock and computes the deadline
ComputeDeadline ==
    /\ wait.pc = "wait"
    /\ wait' = [wait EXCEPT !.pc = "done",
                            !.timeout = Deadline(wait.now, wait.flush_interval_ms)]
    /\ WaitUnchanged

NextWait ==
    \/ ReadFlushInterval
    \/ ComputeDeadline

SpecWait == InitWait /\ [][NextWait]_vars

(***************************************************************************)
(* C30: the deadline is a normalized timespec, flush_interval later.       *)
(***************************************************************************)
\* whole milliseconds of a timespec
WholeMs(ts) == ts.tv_sec * 1000 + ts.ms

\* C30: the deadline passed to the timed wait has 0 <= tv_nsec < 1000000000
\* and is exactly flush_interval milliseconds after the clock reading, for
\* every accepted flush_interval and every clock reading.
C30_DeadlineNormalized ==
    wait.pc = "done" =>
        /\ wait.timeout.ms >= 0
        /\ wait.timeout.ms < 1000
        /\ wait.timeout.ns = wait.now.ns
        /\ WholeMs(wait.timeout) = WholeMs(wait.now) + wait.flush_interval_ms

\* the same for intervals of at most one second
DeadlineUpToOneSecond ==
    wait.flush_interval_ms <= 1000 => C30_DeadlineNormalized

\* the deadline is always exactly flush_interval after the reading, normalized
\* or not
DeadlineExact ==
    wait.pc = "done" =>
        /\ wait.timeout.ns = wait.now.ns
        /\ WholeMs(wait.timeout) = WholeMs(wait.now) + wait.flush_interval_ms

(***************************************************************************)
(* Stopping the writer, with the signal of cleanup at any point.           *)
(***************************************************************************)
\* a publish with a payload
StopEvents ==
    { [topic |-> T_da, retain |-> FALSE, payload |-> << 112 >>, qos |-> 1,
       props |-> << >>] }

CallbackStop == CallbackOn(StopEvents)

\* mosquitto_plugin_cleanup clears the flag and signals without holding
\* queue_mutex. The writer tests the flag with the mutex held and gives the
\* mutex up only inside pthread_cond_timedwait, but cleanup can run between
\* the test and the wait; the signal then finds no waiter and is lost
CleanupStopLost ==
    /\ ppc = "loaded"
    /\ batch_thread_running # 0
    /\ wpc = "waiting"
    /\ batch_thread_running' = 0
    /\ woken' = woken
    /\ ppc' = "joining"
    /\ cleanup_queue' = SeqsOf(msg_queue)
    /\ UNCHANGED << gen_vars, cfg_vars, match_vars, codec, time_vars, queue_vars, writer_vars,
                    evt_vars, enq_log, step_log, ins_log, del_log, free_log, store >>

NextStop ==
    \/ PluginInitOk
    \/ CallbackStop
    \/ CleanupStop
    \/ CleanupStopLost
    \/ CleanupFinish
    \/ Writer

\* the writer thread is scheduled
SpecStop == Init /\ [][NextStop]_vars /\ WF_vars(Writer)

(***************************************************************************)
(* C31: the writer exits after cleanup stopped it.                         *)
(***************************************************************************)
\* C31: once cleanup has cleared the flag and signalled, the writer leaves
\* its loop, empties the queue in the final flush and returns, so that the
\* join of cleanup returns, also when the signal came between the writer's
\* test of the flag and its wait.
C31_WriterExits ==
    (ppc = "joining") ~> (wfinal /\ msg_queue = << >> /\ JoinReturns)

\* cleanup has stopped the writer, the signal was lost, an entry is queued
C31_Witness ==
    /\ ppc = "joining"
    /\ wpc = "waiting"
    /\ ~woken
    /\ msg_queue # << >>

(***************************************************************************)
(* C32, C33: which thread changes the store and uses the statements.       *)
(***************************************************************************)
\* C32: no step of on_message_callback changes the rows of the store; a
\* delete request only adds an entry to the queue, and the rows change in
\* the writer's steps alone.
C32_CallbackLeavesStore ==
    [][CallbackReturned => store' = store]_vars

\* the same for the publishes that are not delete requests
InsertLeavesStore ==
    [][(CallbackReturned /\ ~IsDeleteIntent(evt')) => store' = store]_vars

\* insert_stmt was bound and stepped in this step: an entry was stepped or a
\* row appeared
InsertStepped == step_log' # step_log \/ \E r \in store' : r \notin store

\* delete_stmt was bound and stepped in this step: the callback took the
\* delete branch with a target, or a row disappeared
DeleteStepped ==
    \/ CallbackReturned /\ hist'[calls'].path = "delete"
    \/ \E r \in store : r \notin store'

\* a step of the writer thread
WriterStep == writer_vars' # writer_vars /\ ppc' = ppc /\ calls' = calls

\* C33: insert_stmt is bound and stepped in steps of the writer thread
\* only and delete_stmt in steps of the publish thread only, so no statement
\* is ever used by both threads.
C33_OneThreadPerStatement ==
    [][/\ InsertStepped => (WriterStep /\ ~CallbackReturned)
       /\ DeleteStepped => (CallbackReturned /\ ~WriterStep)]_vars

\* the publish thread has just stepped delete_stmt and removed a row while
\* the writer thread is inside a batch, stepping insert_stmt
C33_Witness ==
    /\ calls >= 2
    /\ hist[calls].path = "delete"
    /\ \E k \in 1..(calls - 1) : hist[k].path = "insert" /\ hist[k].topic = hist[calls].topic
    /\ wpc = "step"
    /\ step_log # << >>

(***************************************************************************)
(* flush_batch with a store that can report errors, after an init in which *)
(* the insert statement may fail to prepare.                               *)
(***************************************************************************)
FlushOutcomes == { AllOk, [AllOk EXCEPT !.insert = FALSE] }

PluginInitFlush ==
    \E o \in FlushOutcomes, bs \in BatchSizeOptions : mosquitto_plugin_init(o, bs)

\* a publish with a payload
FlushEvents ==
    { [topic |-> T_da, retain |-> FALSE, payload |-> << 113 >>, qos |-> 0,
       props |-> << >>] }

CallbackFlush == CallbackOn(FlushEvents)

\* a plausible slip: the loop is left at the first error
W_StepFails_Breaks ==
    /\ wpc = "step"
    /\ bidx <= Len(batch)
    /\ step_log' = Append(step_log, batch[bidx].seq)
    /\ bidx' = bidx + 1
    /\ wpc' = "commit"
    /\ UNCHANGED << gen_vars, cfg_vars, match_vars, codec, time_vars, queue_vars, wfinal, batch, in_txn,
                    evt_vars, enq_log, ins_log, del_log, cleanup_queue, free_log,
                    batch_thread_running, store, ppc, woken >>

\* a turn of while (entry != NULL) in which sqlite3_step returns an error
\* (SQLITE_FULL, SQLITE_BUSY, ...): the error is logged, the statement is
\* reset and entry = entry->next
W_StepFails ==
    /\ wpc = "step"
    /\ bidx <= Len(batch)
    /\ step_log' = Append(step_log, batch[bidx].seq)
    /\ bidx' = bidx + 1
    /\ wpc' = IF bidx + 1 > Len(batch) THEN "commit" ELSE "step"
    /\ UNCHANGED << gen_vars, cfg_vars, match_vars, codec, time_vars, queue_vars, wfinal, batch, in_txn,
                    evt_vars, enq_log, ins_log, del_log, cleanup_queue, free_log,
                    batch_thread_running, store, ppc, woken >>

\* sqlite3_exec(msg_db, "COMMIT") returns an error: it is logged, the
\* transaction stays open, and the entries of the batch are freed
W_CommitFails ==
    /\ wpc = "commit"
    /\ in_txn' = TRUE
    /\ batch' = << >>
    /\ bidx' = 1
    /\ free_log' = free_log \cup {batch[i].seq : i \in 1..Len(batch)}
    /\ wpc' = FlushReturn
    /\ UNCHANGED << gen_vars, cfg_vars, match_vars, codec, time_vars, queue_vars, wfinal, evt_vars,
                    enq_log, step_log, ins_log, del_log, cleanup_queue,
                    batch_thread_running, store, ppc, woken >>

NextFlush ==
    \/ PluginInitFlush
    \/ CallbackFlush
    \/ Cleanup
    \/ Writer
    \/ W_StepFails
    \/ W_CommitFails

SpecFlush == Init /\ [][NextFlush]_vars

(***************************************************************************)
(* C34, C35: what flush_batch does with the entries it took.               *)
(***************************************************************************)
\* flush_batch holds a batch it has not freed yet
InFlush == wpc \in {"begin", "step", "commit"}

\* the entries that were pushed and are neither queued nor in the hands of a
\* running flush_batch
TakenAndDone ==
    Range(enq_log)
        \ (Range(SeqsOf(msg_queue))
             \cup (IF InFlush THEN Range(SeqsOf(batch)) ELSE {}))

\* C34: every entry flush_batch took from the queue has been freed when
\* flush_batch has returned, whatever the steps and the commit returned and
\* whether or not the store and the insert statement are there.
C34_TakenEntriesFreed == TakenAndDone \subseteq free_log

\* the same when the insert statement was prepared
FreedWithStatement == insert_stmt # "NULL" => C34_TakenEntriesFreed

\* C35: when flush_batch reaches the commit, every entry of the batch has
\* been bound and stepped, in the order of the batch, also after a step that
\* failed; and no step leaves the loop for anything but the next entry or
\* the commit.
C35_StepErrorGoesOn ==
    /\ [](wpc = "commit" =>
             /\ Len(step_log) >= Len(batch)
             /\ SubSeq(step_log, Len(step_log) - Len(batch) + 1, Len(step_log))
                    = SeqsOf(batch))
    /\ [][wpc = "step" => wpc' \in {"step", "commit"}]_vars

\* a batch of two at the commit: the step of the first entry failed, the
\* second was stepped after it and inserted
C35_Witness ==
    /\ wpc = "commit"
    /\ Len(batch) = 2
    /\ batch[1].seq \notin Range(ins_log)
    /\ batch[2].seq \in Range(ins_log)
    /\ \E r \in store : r.ulid = batch[2].ulid

(***************************************************************************)
(* The signal of enqueue_message.                                          *)
(***************************************************************************)
\* a step in which enqueue_message pushed an entry
Pushed == enq_log' # enq_log

\* the writer sits in pthread_cond_timedwait and no signal is pending for it
WaitingUnsignalled == wpc = "waiting" /\ ~woken

\* C36: a push signals queue_cond exactly when the size after the push is at
\* least batch_size: a writer waiting without a pending signal is woken by a
\* push that reaches the threshold and is not woken by a push that leaves the
\* size below it; a push changes the pending signal in no other way
C36_SignalAtThreshold ==
    [][Pushed =>
          /\ msg_queue_size' = msg_queue_size + 1
          /\ (WaitingUnsignalled => (woken' <=> msg_queue_size' >= batch_size))
          /\ (~WaitingUnsignalled => woken' = woken)]_vars

\* the writer, waiting, has been signalled by the push that made the size
\* reach the threshold, after a push below the threshold left it waiting
C36_Witness ==
    /\ wpc = "waiting"
    /\ woken
    /\ batch_thread_running # 0
    /\ msg_queue_size = batch_size
    /\ Len(enq_log) = batch_size

EmptyPatternOtherTopics ==
    (m_result # -1 /\ m_pattern = << >> /\ m_topic # << >>) => m_result = 0

(***************************************************************************)
(* The timestamp column.                                                   *)
(***************************************************************************)
\* C38: the timestamp stored with a row is the Unix time in milliseconds
\* that the first 10 characters of the row's id encode
C38_StoredTimestampIsIdTime ==
    \A r \in store : PrefixCharsAre(r.ulid, r.timestamp)

\* what is stored: the whole seconds of the id's millisecond time
StoredTimestampIsSeconds ==
    \A r \in store :
        \E ts \in PluginClock :
            /\ PrefixCharsAre(r.ulid, ts)
            /\ r.timestamp = ts \div 1000

(***************************************************************************)
(* The queue's three globals.                                              *)
(***************************************************************************)
\* no thread is between pthread_mutex_lock and pthread_mutex_unlock of
\* queue_mutex (the callback and the take of flush_batch are single steps)
MutexFree == wpc # "locked"

\* C39: whenever queue_mutex is not held, msg_queue_size is the number of
\* linked entries, msg_queue_head is the first and msg_queue_tail the last of
\* them, and head is NULL exactly when tail is NULL exactly when the size
\* is 0
C39_QueueConsistent ==
    MutexFree =>
        /\ msg_queue_size = Len(msg_queue)
        /\ (msg_queue_head = NullEntry) <=> (msg_queue_tail = NullEntry)
        /\ (msg_queue_head = NullEntry) <=> (msg_queue_size = 0)
        /\ msg_queue # << >> =>
              /\ msg_queue_head = msg_queue[1].seq
              /\ msg_queue_tail = msg_queue[Len(msg_queue)].seq

\* a push onto the queue that a flush had emptied after two pushes
C39_Witness ==
    /\ MutexFree
    /\ Len(step_log) = 2
    /\ msg_queue_size = 1
    /\ msg_queue_head = 3
    /\ msg_queue_tail = 3

(***************************************************************************)
(* The handles over several lives of the plugin: the broker may call       *)
(* mosquitto_plugin_init again after mosquitto_plugin_cleanup, the library *)
(* and its statics staying loaded, and sqlite3_open may fail.              *)
(***************************************************************************)
LifeOutcomes == { AllOk, [AllOk EXCEPT !.open = FALSE] }

PluginInitLife ==
    \E o \in LifeOutcomes, bs \in BatchSizeOptions : mosquitto_plugin_init(o, bs)

\* a publish with a payload, and a delete request without an id
LifeEvents ==
    { [topic |-> T_da, retain |-> FALSE, payload |-> << 113 >>, qos |-> 0,
       props |-> << >>],
      [topic |-> T_da, retain |-> TRUE, payload |-> << >>, qos |-> 1,
       props |-> << >>] }

CallbackLife == CallbackOn(LifeEvents)

\* after a cleanup the plugin can be initialised again: the statics keep the
\* values the cleanup left, the writer thread of the life before is gone
BrokerReload ==
    /\ ppc = "cleaned"
    /\ ppc' = "unloaded"
    /\ wfinal' = FALSE
    /\ UNCHANGED << gen_vars, cfg_vars, match_vars, codec, time_vars, queue_vars, wpc, batch, bidx,
                    in_txn, evt_vars, log_vars, batch_thread_running, store, woken >>

\* What SQLite does with a closed handle or a finalized statement is
\* undefined; the steps below go on as the code does when the call returns,
\* and the property is about the first such use.
NextLife ==
    \/ PluginInitLife
    \/ CallbackLife
    \/ Cleanup
    \/ BrokerReload
    \/ Writer

SpecLife == Init /\ [][NextLife]_vars

\* flush_batch runs BEGIN TRANSACTION or COMMIT on msg_db
StoreUsedByWriter == wpc \in {"begin", "commit"} /\ wpc' # wpc

\* flush_batch binds and steps insert_stmt
InsertUsedByWriter == wpc = "step" /\ step_log' # step_log

\* the callback prepares the query for the latest id of the topic on msg_db
CallbackQueries ==
    /\ CallbackReturned
    /\ hist'[calls'].path \in {"delete", "delete_notarget", "delete_nostmt"}
    /\ ~FindUlidProperty(evt'.props).found

\* the callback binds and steps delete_stmt
CallbackDeletes == CallbackReturned /\ hist'[calls'].path = "delete"

\* mosquitto_plugin_cleanup reaches its calls of sqlite3_finalize and
\* sqlite3_close, made for every pointer that is not NULL
CleanupReleases == ppc \in {"joining", "finalizing"} /\ ppc' = "cleaned"

\* a step that uses the store handle after its close, or a statement after
\* its finalize
UseAfterClose ==
    \/ /\ msg_db = "closed"
       /\ (StoreUsedByWriter \/ CallbackQueries \/ CallbackDeletes \/ CleanupReleases)
    \/ /\ insert_stmt = "finalized"
       /\ (InsertUsedByWriter \/ CleanupReleases)
    \/ /\ delete_stmt = "finalized"
       /\ (CallbackDeletes \/ CleanupReleases)

\* C40: in every sequence of init, callbacks and cleanup, with a failed
\* sqlite3_open and with an init after a cleanup among them, no step uses
\* msg_db after it was closed or a statement after it was finalized; msg_db
\* is closed at most once per open
C40_NoUseAfterClose == [][~UseAfterClose]_vars

\* the same for the handles of one life whose sqlite3_open succeeded: used
\* only while open, closed once
HandleOpenWhenUsed ==
    [][(StoreUsedByWriter \/ CallbackQueries \/ CallbackDeletes \/ CleanupReleases)
          => msg_db = "open"]_vars

\* a later life whose sqlite3_open failed: the writer is about to step the
\* statement that the cleanup before finalized
StaleStatementStepped ==
    /\ ppc = "loaded"
    /\ msg_db = "closed"
    /\ insert_stmt = "finalized"
    /\ wpc = "step"
    /\ bidx <= Len(batch)

(***************************************************************************)
(* One life of the plugin with a publish and a delete request: which       *)
(* thread steps which statement.                                           *)
(***************************************************************************)
NextThreads ==
    \/ PluginInitOk
    \/ CallbackLife
    \/ Cleanup
    \/ Writer

SpecThreads == Init /\ [][NextThreads]_vars

====
